---- MODULE Spec2Model ----
(***************************************************************************)
(* QuatGolf ball physics (BallPhysics.h) over a heightmap terrain          *)
(* (Terrain.h, Surface.h), with the vector helpers of Vec3.h; then, each   *)
(* under a specification of its own, the terrain queries, the course       *)
(* stamps and the stamping of a whole hole (CourseBuilder.h, Hole.h),      *)
(* Entity.h, the projectile list and the shooting pipeline (Projectile.h,  *)
(* Combat.h, AABB.h), the path search (NavigationSystem.h) and the round   *)
(* of golf that main.cpp plays on the ball (setup_hole, launch, update).   *)
(*                                                                         *)
(* Every float of the source is a fixed-point integer with three decimal   *)
(* digits: the integer n stands for the real number n / Scale.  Products   *)
(* and quotients round to the nearest unit, as float arithmetic rounds to  *)
(* the nearest representable value.  Areas and masses, which are below one *)
(* unit, are carried in the same way at their own magnitude (see area and  *)
(* mass below).                                                            *)
(***************************************************************************)
EXTENDS Integers, Sequences, FiniteSets, TLC

Scale == 1000

----------------------------------------------------------------------------
(* Fixed-point arithmetic                                                  *)

Abs(a) == IF a < 0 THEN -a ELSE a

Sgn(a) == IF a < 0 THEN -1 ELSE 1

\* a * b of two floats
Mul(a, b) == Sgn(a) * Sgn(b) * ((Abs(a) * Abs(b) + Scale \div 2) \div Scale)

\* a / b of two floats, b # 0
Div(a, b) == Sgn(a) * Sgn(b) * ((Abs(a) * Scale + Abs(b) \div 2) \div Abs(b))

\* std::floor followed by static_cast<int>
Floor(a) == a \div Scale

\* std::round (halves away from zero) followed by static_cast<int>
Round(a) == Sgn(a) * ((Abs(a) + Scale \div 2) \div Scale)

\* std::clamp(v, lo, hi)
Clamp(v, lo, hi) == IF v < lo THEN lo ELSE IF v > hi THEN hi ELSE v

RECURSIVE SqrtSearch(_, _, _)
SqrtSearch(n, lo, hi) ==
    IF lo >= hi THEN lo
    ELSE LET mid == (lo + hi + 1) \div 2
         IN  IF mid * mid <= n THEN SqrtSearch(n, mid, hi)
                               ELSE SqrtSearch(n, lo, mid - 1)

\* std::sqrt of a raw integer: the largest r with r * r <= n
ISqrt(n) == SqrtSearch(n, 0, 46340)

----------------------------------------------------------------------------
(* Vec3.h                                                                  *)

Vec3(a, b, c) == [x |-> a, y |-> b, z |-> c]

Zero == Vec3(0, 0, 0)

VAdd(a, b) == Vec3(a.x + b.x, a.y + b.y, a.z + b.z)

VSub(a, b) == Vec3(a.x - b.x, a.y - b.y, a.z - b.z)

VScale(a, s) == Vec3(Mul(a.x, s), Mul(a.y, s), Mul(a.z, s))

Dot(a, b) == Mul(a.x, b.x) + Mul(a.y, b.y) + Mul(a.z, b.z)

Cross(a, b) ==
    Vec3(Mul(a.y, b.z) - Mul(a.z, b.y),
         Mul(a.z, b.x) - Mul(a.x, b.z),
         Mul(a.x, b.y) - Mul(a.y, b.x))

MaxAbs(a) ==
    LET m == IF Abs(a.x) > Abs(a.y) THEN Abs(a.x) ELSE Abs(a.y)
    IN  IF m > Abs(a.z) THEN m ELSE Abs(a.z)

\* the largest component for which the sum of three squares fits an int
LengthRange == 26000

LengthStep == 32

RECURSIVE Length(_)
Length(a) ==
    IF MaxAbs(a) <= LengthRange
    THEN ISqrt(a.x * a.x + a.y * a.y + a.z * a.z)
    ELSE LengthStep * Length(Vec3(a.x \div LengthStep, a.y \div LengthStep,
                                  a.z \div LengthStep))

\* normalized() throws std::domain_error below this length (1e-8f: every
\* length of at least one unit passes, the zero length does not)
NormEps == 1

NormalizedThrows(a) == Length(a) < NormEps

Normalized(a) ==
    LET len == Length(a)
    IN  Vec3(Div(a.x, len), Div(a.y, len), Div(a.z, len))

----------------------------------------------------------------------------
(* Surface.h                                                               *)

SurfaceTypes ==
    {"Tee", "Fairway", "Rough", "DeepRough", "Sand", "Green", "Water",
     "OutOfBounds"}

\* get_surface: friction, bounce (restitution) and speed multiplier
get_surface(type) ==
    CASE type = "Tee"       -> [friction |-> 80,   bounce |-> 500, speed_mult |-> 1000]
      [] type = "Fairway"   -> [friction |-> 100,  bounce |-> 450, speed_mult |-> 1000]
      [] type = "Rough"     -> [friction |-> 300,  bounce |-> 350, speed_mult |-> 700]
      [] type = "DeepRough" -> [friction |-> 500,  bounce |-> 250, speed_mult |-> 400]
      [] type = "Sand"      -> [friction |-> 600,  bounce |-> 150, speed_mult |-> 500]
      [] type = "Green"     -> [friction |-> 40,   bounce |-> 400, speed_mult |-> 1000]
      [] type = "Water"     -> [friction |-> 1000, bounce |-> 0,   speed_mult |-> 0]
      [] OTHER              -> [friction |-> 500,  bounce |-> 300, speed_mult |-> 500]

----------------------------------------------------------------------------
(* Terrain.h: a terrain t is [width, depth, cell_size, heights, surfaces], *)
(* the two arrays indexed by z * width + x.                                *)

\* faulty variant: the index clamped to width and depth
CellIndexClampedToSize(t, x, z) ==
    Clamp(z, 0, t.depth) * t.width + Clamp(x, 0, t.width)

\* x = std::clamp(x, 0, width - 1); z = std::clamp(z, 0, depth - 1);
\* the index z * width + x
CellIndex(t, x, z) ==
    Clamp(z, 0, t.depth - 1) * t.width + Clamp(x, 0, t.width - 1)

height_at(t, x, z) == t.heights[CellIndex(t, x, z)]

surface_at(t, x, z) == t.surfaces[CellIndex(t, x, z)]

\* wx / cell_size + width / 2.0f
GridCoord(w, cell_size, n) == Div(w, cell_size) + (n * Scale) \div 2

\* faulty variant: the cell after the one the position lies in
height_at_world_from_next_cell(t, wx, wz) ==
    LET gx  == GridCoord(wx, t.cell_size, t.width)
        gz  == GridCoord(wz, t.cell_size, t.depth)
        x0  == Floor(gx) + 1
        z0  == Floor(gz)
        fx  == gx - Floor(gx) * Scale
        fz  == gz - z0 * Scale
        h00 == height_at(t, x0, z0)
        h10 == height_at(t, x0 + 1, z0)
        h01 == height_at(t, x0, z0 + 1)
        h11 == height_at(t, x0 + 1, z0 + 1)
        h0  == h00 + Mul(h10 - h00, fx)
        h1  == h01 + Mul(h11 - h01, fx)
    IN  h0 + Mul(h1 - h0, fz)

height_at_world(t, wx, wz) ==
    LET gx  == GridCoord(wx, t.cell_size, t.width)
        gz  == GridCoord(wz, t.cell_size, t.depth)
        x0  == Floor(gx)
        z0  == Floor(gz)
        fx  == gx - x0 * Scale
        fz  == gz - z0 * Scale
        h00 == height_at(t, x0, z0)
        h10 == height_at(t, x0 + 1, z0)
        h01 == height_at(t, x0, z0 + 1)
        h11 == height_at(t, x0 + 1, z0 + 1)
        h0  == h00 + Mul(h10 - h00, fx)
        h1  == h01 + Mul(h11 - h01, fx)
    IN  h0 + Mul(h1 - h0, fz)

normal_at(t, x, z) ==
    Normalized(Vec3(height_at(t, x - 1, z) - height_at(t, x + 1, z),
                    2 * t.cell_size,
                    height_at(t, x, z - 1) - height_at(t, x, z + 1)))

normal_at_world(t, wx, wz) ==
    normal_at(t, Round(GridCoord(wx, t.cell_size, t.width)),
                 Round(GridCoord(wz, t.cell_size, t.depth)))

surface_at_world(t, wx, wz) ==
    surface_at(t, Round(GridCoord(wx, t.cell_size, t.width)),
                  Round(GridCoord(wz, t.cell_size, t.depth)))

----------------------------------------------------------------------------
(* BallPhysics.h: BallConstants                                            *)

\* kg and m^2, in millionths (both are below one unit of Scale)
mass == 45930

area == 1432

radius == 21

drag_coeff == 250

lift_coeff == 180

air_density == 1225

gravity == 9810

min_speed == 20

bounce_loss == 150

\* if (speed < 0.001f) return;  and  if (speed > 0.001f) in update_rolling
SpeedEps == 1

\* if (ball.spin.length() > 0.01f)
SpinEps == 10

\* ball.spin * 0.999f
SpinDecay == 999

\* if (ball.velocity.y < 0.5f)
DeadBounce == 500

----------------------------------------------------------------------------
(* BallPhysics.h: the ball b is a BallState                                *)

\* speed * speed scaled by 0.5 * air_density * coeff * area, over the mass
AeroAccel(coeff, speed) ==
    Div(Mul(Mul(Mul(Mul(Mul(500, air_density), coeff), area), speed), speed),
        mass)

\* update_flight throws when the Magnus direction cannot be normalized
update_flight_throws(b, wind) ==
    LET rel_vel == VSub(b.velocity, wind)
    IN  /\ ~(Length(rel_vel) < SpeedEps)
        /\ Length(b.spin) > SpinEps
        /\ NormalizedThrows(Cross(b.spin, rel_vel))

update_flight(b, wind, dt) ==
    LET rel_vel == VSub(b.velocity, wind)
        speed   == Length(rel_vel)
    IN  IF speed < SpeedEps THEN b
        ELSE
        LET drag_dir   == VScale(Normalized(rel_vel), -Scale)
            drag_accel == VScale(drag_dir, AeroAccel(drag_coeff, speed))
            lift_accel ==
                IF Length(b.spin) > SpinEps
                THEN VScale(Normalized(Cross(b.spin, rel_vel)),
                            AeroAccel(lift_coeff, speed))
                ELSE Zero
            gravity_accel == Vec3(0, -gravity, 0)
            total_accel   == VAdd(VAdd(gravity_accel, drag_accel), lift_accel)
            velocity      == VAdd(b.velocity, VScale(total_accel, dt))
        IN  [b EXCEPT !.velocity = velocity,
                      !.position = VAdd(b.position, VScale(velocity, dt)),
                      !.spin     = VScale(b.spin, SpinDecay)]

\* faulty variant: the water branch leaves in_flight set
water_hazard_keeps_flight(b) ==
    [b EXCEPT !.in_water = TRUE, !.velocity = Zero]

\* faulty variant: the water branch leaves the velocity
water_hazard_keeps_velocity(b) ==
    [b EXCEPT !.in_water = TRUE, !.in_flight = FALSE]

\* check_terrain_contact, "Water hazard": the ball stops immediately
water_hazard(b) ==
    [b EXCEPT !.in_water = TRUE, !.in_flight = FALSE, !.velocity = Zero]

\* faulty variant: a dead bounce stops the ball instead of letting it roll
bounce_stops(b, surface, normal) ==
    LET v_dot_n == Dot(b.velocity, normal)
    IN  IF ~(v_dot_n < 0) THEN b
        ELSE
        LET reflected   == VSub(b.velocity, VScale(normal, Mul(2 * Scale, v_dot_n)))
            restitution == Mul(surface.bounce, Scale - bounce_loss)
            bounced     == VScale(reflected, restitution)
        IN  IF bounced.y < DeadBounce
            THEN [b EXCEPT !.in_flight = FALSE, !.stopped = TRUE,
                           !.velocity = [bounced EXCEPT !.y = 0]]
            ELSE [b EXCEPT !.velocity = bounced]

\* faulty variant: the restitution is the surface's bounce, without bounce_loss
bounce_without_loss(b, surface, normal) ==
    LET v_dot_n == Dot(b.velocity, normal)
    IN  IF ~(v_dot_n < 0) THEN b
        ELSE
        LET reflected   == VSub(b.velocity, VScale(normal, Mul(2 * Scale, v_dot_n)))
            restitution == surface.bounce
            bounced     == VScale(reflected, restitution)
        IN  IF bounced.y < DeadBounce
            THEN [b EXCEPT !.in_flight = FALSE, !.rolling = TRUE,
                           !.velocity = [bounced EXCEPT !.y = 0]]
            ELSE [b EXCEPT !.velocity = bounced]

\* check_terrain_contact, "Bounce": reflect off the normal, lose energy, and
\* roll when the bounce is too weak
bounce(b, surface, normal) ==
    LET v_dot_n == Dot(b.velocity, normal)
    IN  IF ~(v_dot_n < 0) THEN b
        ELSE
        LET reflected   == VSub(b.velocity, VScale(normal, Mul(2 * Scale, v_dot_n)))
            restitution == Mul(surface.bounce, Scale - bounce_loss)
            bounced     == VScale(reflected, restitution)
        IN  IF bounced.y < DeadBounce
            THEN [b EXCEPT !.in_flight = FALSE, !.rolling = TRUE,
                           !.velocity = [bounced EXCEPT !.y = 0]]
            ELSE [b EXCEPT !.velocity = bounced]

\* faulty variant: the ball is left where the flight step put it
check_terrain_contact_without_snap(b, t) ==
    LET ground_y == height_at_world(t, b.position.x, b.position.z)
    IN  IF ~(b.position.y <= ground_y + radius) THEN b
        ELSE
        LET surface_type == surface_at_world(t, b.position.x, b.position.z)
        IN  IF surface_type = "Water"
            THEN water_hazard(b)
            ELSE bounce(b, get_surface(surface_type),
                        normal_at_world(t, b.position.x, b.position.z))

\* check_terrain_contact: ground contact after a flight step
check_terrain_contact(b, t) ==
    LET ground_y == height_at_world(t, b.position.x, b.position.z)
    IN  IF ~(b.position.y <= ground_y + radius) THEN b
        ELSE
        LET b1 == [b EXCEPT !.position.y = ground_y + radius]
            surface_type == surface_at_world(t, b1.position.x, b1.position.z)
        IN  IF surface_type = "Water"
            THEN water_hazard(b1)
            ELSE bounce(b1, get_surface(surface_type),
                        normal_at_world(t, b1.position.x, b1.position.z))

update_rolling(b, t, dt) ==
    LET ground_y == height_at_world(t, b.position.x, b.position.z)
        b1 == [b EXCEPT !.position.y = ground_y + radius]
        surface_type == surface_at_world(t, b1.position.x, b1.position.z)
    IN  IF surface_type = "Water"
        THEN [b1 EXCEPT !.in_water = TRUE, !.rolling = FALSE, !.velocity = Zero]
        ELSE
        LET surface     == get_surface(surface_type)
            normal      == normal_at_world(t, b1.position.x, b1.position.z)
            gravity_vec == Vec3(0, -gravity, 0)
            g_dot_n     == Dot(gravity_vec, normal)
            slope_accel == VSub(gravity_vec, VScale(normal, g_dot_n))
            speed       == Length(b1.velocity)
            friction_accel ==
                IF speed > SpeedEps
                THEN VScale(VScale(VScale(Normalized(b1.velocity), -Scale),
                                   surface.friction), gravity)
                ELSE Zero
            v1  == VAdd(b1.velocity, VScale(VAdd(slope_accel, friction_accel), dt))
            v2  == VScale(v1, surface.speed_mult)
            p1  == VAdd(b1.position, VScale(v2, dt))
            p2  == [p1 EXCEPT !.y = height_at_world(t, p1.x, p1.z) + radius]
        IN  IF Length(v2) < min_speed
            THEN [b1 EXCEPT !.position = p2, !.velocity = Zero,
                            !.rolling = FALSE, !.stopped = TRUE]
            ELSE [b1 EXCEPT !.position = p2, !.velocity = v2]

\* update: the ball after the call, and whether the call threw instead
update_throws(b, wind) ==
    /\ ~(b.stopped \/ b.in_water)
    /\ b.in_flight
    /\ update_flight_throws(b, wind)

\* faulty variant: no early return, and every ball not in flight is rolled
update_without_early_return(b, t, wind, dt) ==
    IF b.in_flight
    THEN IF update_flight_throws(b, wind) THEN b
         ELSE check_terrain_contact(update_flight(b, wind, dt), t)
    ELSE update_rolling(b, t, dt)

update(b, t, wind, dt) ==
    IF b.stopped \/ b.in_water THEN b
    ELSE IF b.in_flight
         THEN IF update_flight_throws(b, wind) THEN b
              ELSE check_terrain_contact(update_flight(b, wind, dt), t)
         ELSE IF b.rolling THEN update_rolling(b, t, dt)
         ELSE b

\* faulty variant: launch forgets to clear rolling
launch_keeps_rolling(b, velocity, spin) ==
    [b EXCEPT !.velocity = velocity, !.spin = spin, !.in_flight = TRUE,
              !.stopped = FALSE, !.in_water = FALSE]

launch(b, velocity, spin) ==
    [b EXCEPT !.velocity = velocity, !.spin = spin, !.in_flight = TRUE,
              !.rolling = FALSE, !.stopped = FALSE, !.in_water = FALSE]

----------------------------------------------------------------------------
(* Inputs: terrains, winds, time steps, tee positions and shots            *)

GridCells == 16

\* a 4 x 4 grid of 1 m cells, built as set_data(4, 4, 1.0f, h, s) builds it
Grid(h, s) ==
    [width |-> 4, depth |-> 4, cell_size |-> Scale,
     heights  |-> [i \in 0 .. GridCells - 1 |-> h[i]],
     surfaces |-> [i \in 0 .. GridCells - 1 |-> s[i]]]

\* flat ground at height 0 with one surface everywhere
Flat(surface) ==
    Grid([i \in 0 .. GridCells - 1 |-> 0], [i \in 0 .. GridCells - 1 |-> surface])

\* flat ground; the two rows with the lowest z are Water, the others Fairway
Pond ==
    Grid([i \in 0 .. GridCells - 1 |-> 0],
         [i \in 0 .. GridCells - 1 |-> IF i \div 4 <= 1 THEN "Water" ELSE "Fairway"])

\* ground rising 0.3 m per cell along x, Green below and Rough above
Slope ==
    Grid([i \in 0 .. GridCells - 1 |-> 300 * (i % 4)],
         [i \in 0 .. GridCells - 1 |-> IF i % 4 <= 1 THEN "Green" ELSE "Rough"])

\* a run's surroundings: terrain, wind, frame time (below the game loop's
\* clamp of 0.1 s) and tee position (x, z)
Scenarios ==
    { [terrain |-> Flat("Fairway"), wind |-> Zero,             dt |-> 100, tee |-> <<0, 0>>],
      [terrain |-> Pond,            wind |-> Zero,             dt |-> 100, tee |-> <<0, 763>>],
      [terrain |-> Pond,            wind |-> Vec3(1000, 0, 0), dt |-> 50,  tee |-> <<0, 0>>],
      [terrain |-> Slope,           wind |-> Vec3(1000, 0, 0), dt |-> 50,  tee |-> <<500, 355>>] }

\* shots: launch velocity and spin
LaunchInputs ==
    { [velocity |-> Vec3(0, 2000, -2750), spin |-> Zero],
      [velocity |-> Vec3(0, 4000, 0),     spin |-> Zero],
      [velocity |-> Vec3(0, 3000, -4000), spin |-> Vec3(-5000, 0, 0)],
      [velocity |-> Vec3(0, 0, -3000),    spin |-> Vec3(0, 0, 5000)] }

\* the most launch() calls in a run
MaxLaunches == 2

\* the most update() calls on a moving ball after a launch
MaxTicks == 16

\* the most update() calls in a row on a ball at rest
MaxIdle == 2

----------------------------------------------------------------------------
(* State                                                                   *)

VARIABLES
    ball,       \* App::ball, the BallState
    terrain,    \* App::terrain
    wind,       \* BallPhysics::constants.wind
    dt,         \* the frame time handed to update()
    threw,      \* an update() call ended in std::domain_error
    launches,   \* launch() calls so far
    ticks,      \* update() calls on the moving ball since the last launch
    idle,       \* update() calls on the resting ball since it came to rest
    last,       \* the last call: its kind, the ball before it, for an
                \* update in flight the ball between update_flight and
                \* check_terrain_contact, for a launch its arguments
    entity,     \* a core::Entity
    projectiles,\* the std::vector<core::Projectile> of the combat loop
    nav,        \* an ai::NavigationSystem
    stroke_count, \* App::stroke_count
    stats       \* CombatSystem::stats, the CombatStats

vars == <<ball, terrain, wind, dt, threw, launches, ticks, idle, last,
          entity, projectiles, nav, stroke_count, stats>>

\* main.cpp builds no Entity, no Projectile and no NavigationSystem
NoShooter ==
    /\ entity = <<>>
    /\ projectiles = <<>>
    /\ nav = <<>>
    /\ stats = <<>>

\* setup_hole puts the ball 0.15 m above the ground of the tee
TeeHeight == 150

\* setup_hole: the ball placed on the tee, at rest
TeeUp(t, tee) ==
    [position  |-> Vec3(tee[1], height_at_world(t, tee[1], tee[2]) + TeeHeight, tee[2]),
     velocity  |-> Zero,
     spin      |-> Zero,
     in_flight |-> FALSE,
     rolling   |-> FALSE,
     stopped   |-> TRUE,
     in_water  |-> FALSE]

InitWith(t, w, d, tee) ==
    /\ terrain = t
    /\ wind = w
    /\ dt = d
    /\ ball = TeeUp(t, tee)
    /\ threw = FALSE
    /\ launches = 0
    /\ ticks = 0
    /\ idle = 0
    /\ stroke_count = 0
    /\ last = [op |-> "tee", pre |-> TeeUp(t, tee), mid |-> TeeUp(t, tee),
               velocity |-> Zero, spin |-> Zero]
    /\ NoShooter

Init ==
    \E sc \in Scenarios : InitWith(sc.terrain, sc.wind, sc.dt, sc.tee)

AtRest(b) == b.stopped \/ b.in_water

\* physics.launch(ball, velocity, spin)
LaunchStep(velocity, spin) ==
    /\ ~threw
    /\ ball' = launch(ball, velocity, spin)
    /\ launches' = launches + 1
    /\ ticks' = 0
    /\ idle' = 0
    /\ last' = [op |-> "launch", pre |-> ball, mid |-> ball,
                velocity |-> velocity, spin |-> spin]
    /\ UNCHANGED <<stroke_count, stats, terrain, wind, dt, threw, entity, projectiles, nav>>

\* physics.update(ball, terrain, dt)
UpdateStep ==
    /\ ~threw
    /\ ball' = update(ball, terrain, wind, dt)
    /\ threw' = update_throws(ball, wind)
    /\ ticks' = IF AtRest(ball) THEN ticks ELSE ticks + 1
    /\ idle' = IF AtRest(ball) THEN idle + 1 ELSE 0
    /\ last' = [op  |-> "update",
                pre |-> ball,
                mid |-> IF ball.in_flight /\ ~AtRest(ball) /\ ~update_throws(ball, wind)
                        THEN update_flight(ball, wind, dt) ELSE ball,
                velocity |-> Zero, spin |-> Zero]
    /\ UNCHANGED <<stroke_count, stats, terrain, wind, dt, launches, entity, projectiles, nav>>

CanUpdate(maxTicks) == IF AtRest(ball) THEN idle < MaxIdle ELSE ticks < maxTicks

Launch ==
    /\ launches < MaxLaunches
    /\ \E in \in LaunchInputs : LaunchStep(in.velocity, in.spin)

Update ==
    /\ CanUpdate(MaxTicks)
    /\ UpdateStep

Next == Launch \/ Update

Spec == Init /\ [][Next]_vars

----------------------------------------------------------------------------
(* The flat drive: one shot on flat Fairway, no wind, no spin, a fixed dt  *)

DriveDts == {16, 50, 100}

DriveVelocities == {Vec3(0, 20000, -30000), Vec3(0, 15000, -30000)}

MaxDriveTicks == 450

InitDrive ==
    \E d \in DriveDts : InitWith(Flat("Fairway"), Zero, d, <<0, 0>>)

DriveLaunch ==
    /\ launches = 0
    /\ \E v \in DriveVelocities : LaunchStep(v, Zero)

DriveUpdate ==
    /\ launches = 1
    /\ CanUpdate(MaxDriveTicks)
    /\ UpdateStep

NextDrive == DriveLaunch \/ DriveUpdate

SpecDrive == InitDrive /\ [][NextDrive]_vars

----------------------------------------------------------------------------
(* Properties                                                              *)

FlagNames == {"in_flight", "rolling", "stopped", "in_water"}

\* the flags of b that are set
Flags(b) == {f \in FlagNames : b[f]}

\* position.y <= groundHeight + radius
AtContactHeight(b) ==
    b.position.y <= height_at_world(terrain, b.position.x, b.position.z) + radius

SurfaceUnder(b) == surface_at_world(terrain, b.position.x, b.position.z)

NormalUnder(b) == normal_at_world(terrain, b.position.x, b.position.z)

\* the step is an update() call
IsUpdateCall == last'.op = "update" /\ (ticks' # ticks \/ idle' # idle)

\* C1: from the tee-up state, after any launch() and update() calls exactly
\* one of in_flight, rolling, stopped, in_water is true.
C1_ExactlyOneFlag == Cardinality(Flags(ball)) = 1

C1_Witness == launches = 2 /\ last.op = "update" /\ ball.in_water

\* the transitions of the state diagram that update() may take
Diagram ==
    { <<"in_flight", "in_flight">>, <<"in_flight", "rolling">>,
      <<"in_flight", "in_water">>, <<"rolling", "rolling">>,
      <<"rolling", "stopped">>, <<"rolling", "in_water">>,
      <<"stopped", "stopped">>, <<"in_water", "in_water">> }

\* C2: every update() call takes the ball along a transition of the diagram;
\* it never produces Rolling->Flight or Flight->Stopped and never leaves
\* Stopped or InWater.
C2_UpdateFollowsDiagram ==
    last.op = "update" =>
        \E tr \in Diagram : Flags(last.pre) = {tr[1]} /\ Flags(ball) = {tr[2]}

C2_Witness == last.op = "update" /\ last.pre.rolling /\ ball.stopped

\* C3: after launch(ball, v, s), whatever the state before, in_flight is the
\* only flag set, velocity = v and spin = s.
C3_LaunchResets ==
    last.op = "launch" =>
        /\ ball.in_flight /\ ~ball.rolling /\ ~ball.stopped /\ ~ball.in_water
        /\ ball.velocity = last.velocity
        /\ ball.spin = last.spin

C3_Witness == last.op = "launch" /\ last.pre.rolling /\ last.pre.velocity # last.velocity

\* C4: update() on a Stopped or InWater ball changes nothing (position,
\* velocity, spin, flags), however many times it is called before a launch.
C4_UpdateAtRestIsNoOp ==
    (last.op = "update" /\ AtRest(last.pre)) => ball = last.pre

C4_Witness == last.op = "update" /\ idle = MaxIdle /\ ball.in_water

\* C5: an update() in Flight that ends flight integration at or below contact
\* height over Water returns with in_water set, in_flight and rolling clear
\* and velocity (0,0,0).
C5_FlightIntoWater ==
    (/\ last.op = "update"
     /\ last.pre.in_flight
     /\ ~threw
     /\ AtContactHeight(last.mid)
     /\ SurfaceUnder(last.mid) = "Water")
    => (ball.in_water /\ ~ball.in_flight /\ ~ball.rolling /\ ball.velocity = Zero)

C5_Witness ==
    /\ last.op = "update" /\ last.pre.in_flight /\ ~threw
    /\ AtContactHeight(last.mid) /\ SurfaceUnder(last.mid) = "Water"
    /\ last.mid.velocity # Zero

\* an update() call has just moved a Rolling ball onto a Water cell
RolledOntoWater ==
    /\ last.op = "update"
    /\ last.pre.rolling
    /\ SurfaceUnder(last.pre) # "Water"
    /\ SurfaceUnder(ball) = "Water"

\* C6: once an update() has moved a Rolling ball onto a Water cell, the next
\* update() leaves it in_water with velocity (0,0,0).
C6_WaterAbsorbsRollingBall ==
    [][(RolledOntoWater /\ IsUpdateCall) => (ball'.in_water /\ ball'.velocity = Zero)]_vars

\* the update() is a vertical fall onto flat ground that is not Water
VerticalFallOntoFlat ==
    /\ last.op = "update"
    /\ last.pre.in_flight
    /\ ~threw
    /\ last.mid.velocity.x = 0 /\ last.mid.velocity.z = 0
    /\ last.mid.velocity.y < 0
    /\ AtContactHeight(last.mid)
    /\ SurfaceUnder(last.mid) # "Water"
    /\ NormalUnder(last.mid) = Vec3(0, Scale, 0)

\* r * preSpeed for the surface under the ball
Rebound ==
    Mul(Mul(get_surface(SurfaceUnder(last.mid)).bounce, Scale - bounce_loss),
        -last.mid.velocity.y)

\* C7 as stated: after a vertical fall onto flat ground the vertical speed is
\* r * preSpeed and strictly below preSpeed.
C7_BounceIsRTimesPreSpeed ==
    VerticalFallOntoFlat =>
        /\ ball.velocity.y = Rebound
        /\ Abs(ball.velocity.y) < -last.mid.velocity.y

\* C7 amended: the vertical speed after the bounce is strictly below the
\* speed before contact; it is r * preSpeed when that is at least 0.5 and 0
\* (the ball turns to Rolling) when it is below 0.5.
C7_BounceLosesEnergy ==
    VerticalFallOntoFlat =>
        /\ Abs(ball.velocity.y) < -last.mid.velocity.y
        /\ Rebound >= DeadBounce => (ball.velocity.y = Rebound /\ ball.in_flight)
        /\ Rebound < DeadBounce => (ball.velocity.y = 0 /\ ball.rolling)

C7_Witness == VerticalFallOntoFlat /\ Rebound >= DeadBounce

\* C8: on flat Fairway without wind, with a fixed dt in (0, 0.1], the speed of
\* a Rolling ball never increases from one update() to the next.
C8_RollingSpeedNeverIncreases ==
    [][(ball.rolling /\ IsUpdateCall)
        => Length(ball'.velocity) <= Length(ball.velocity)]_vars

\* C9: update() never raises an error.
C9_UpdateNeverThrows == ~threw

\* the run's update() calls are over
RunIsOver == launches = 1 /\ ~CanUpdate(MaxDriveTicks)

\* C10: the flat drive ends Stopped, at rest with position.y = radius.
C10_FlatDriveStops ==
    RunIsOver => (ball.stopped /\ ball.position.y = radius)

----------------------------------------------------------------------------
(* Terrain.h on its own: set_data with arrays of any length, then the      *)
(* grid and world queries, also far outside the grid                       *)

\* set_data(w, d, cs, heights, surfaces): five assignments, no check
set_data(w, d, cs, heights, surfaces) ==
    [width |-> w, depth |-> d, cell_size |-> cs,
     heights |-> heights, surfaces |-> surfaces]

\* a std::vector of n elements as a function on 0 .. n - 1
RampHeights(n)  == [i \in 0 .. n - 1 |-> 1000 * i]
RidgeHeights(n) == [i \in 0 .. n - 1 |-> 370 * ((i * 37) % 11)]
Checkered(n)    == [i \in 0 .. n - 1 |-> IF i % 2 = 0 THEN "Fairway" ELSE "Sand"]

\* grid sizes <<width, depth>> handed to set_data
TerrainShapes == {<<1, 1>>, <<2, 2>>, <<3, 2>>, <<5, 1>>}

\* cell sizes: 1 m (the course of main.cpp), 0.5 m and 0.225 m
CellSizes == {1000, 500, 225}

\* array lengths handed to set_data for a w x d grid: right, short and long
ArrayLengths(w, d) == {w * d, w * d - 1, w * d + 1}

\* grid queries reach this many cells past each edge of the grid
QueryReach == 2

\* what a read past the end of a std::vector can return
StrayHeights == {0, -999999}

\* heights_ and surfaces_ are width * depth
WellFormed(t) ==
    /\ DOMAIN t.heights = 0 .. t.width * t.depth - 1
    /\ DOMAIN t.surfaces = 0 .. t.width * t.depth - 1

\* the world position of grid line x of n: (x - n / 2.0f) * cell_size
NodeWorld(x, n, cell_size) == Mul(x * Scale - (n * Scale) \div 2, cell_size)

NoGolf ==
    /\ ball = <<>>
    /\ wind = Zero
    /\ dt = 0
    /\ threw = FALSE
    /\ launches = 0
    /\ ticks = 0
    /\ idle = 0
    /\ stroke_count = 0

TerrainCall(op, x, z, index, stray, result) ==
    [op |-> op, x |-> x, z |-> z, index |-> index, stray |-> stray,
     result |-> result]

SetDataInputs ==
    { set_data(sh[1], sh[2], cs, h, s) :
        sh \in TerrainShapes, cs \in CellSizes,
        h \in UNION { {RampHeights(n), RidgeHeights(n)} :
                        n \in UNION { ArrayLengths(q[1], q[2]) : q \in TerrainShapes } },
        s \in { Checkered(n) :
                        n \in UNION { ArrayLengths(q[1], q[2]) : q \in TerrainShapes } } }

\* the arrays of a set_data call come from one grid: their lengths are
\* within one of width * depth
SetDataCalls ==
    { t \in SetDataInputs :
        /\ Cardinality(DOMAIN t.heights) \in ArrayLengths(t.width, t.depth)
        /\ Cardinality(DOMAIN t.surfaces) \in ArrayLengths(t.width, t.depth) }

InitTerrain ==
    /\ terrain \in { t \in SetDataCalls : WellFormed(t) }
    /\ last = TerrainCall("set_data", 0, 0, 0, FALSE, 0)
    /\ NoGolf
    /\ NoShooter

SetData ==
    /\ terrain' \in SetDataCalls
    /\ last' = TerrainCall("set_data", 0, 0, 0, FALSE, 0)
    /\ UNCHANGED <<stroke_count, stats, ball, wind, dt, threw, launches, ticks, idle,
                   entity, projectiles, nav>>

QueryCoords(n) == (0 - QueryReach) .. (n - 1 + QueryReach)

\* terrain.height_at(x, z)
HeightAt ==
    \E x \in QueryCoords(terrain.width), z \in QueryCoords(terrain.depth) :
        LET index == CellIndex(terrain, x, z)
            inside == index \in DOMAIN terrain.heights
        IN  /\ \E r \in IF inside THEN {height_at(terrain, x, z)} ELSE StrayHeights :
                  last' = TerrainCall("height_at", x, z, index, ~inside, r)
            /\ UNCHANGED <<stroke_count, stats, ball, terrain, wind, dt, threw,
                           launches, ticks, idle, entity, projectiles, nav>>

\* terrain.surface_at(x, z)
SurfaceAt ==
    \E x \in QueryCoords(terrain.width), z \in QueryCoords(terrain.depth) :
        LET index == CellIndex(terrain, x, z)
            inside == index \in DOMAIN terrain.surfaces
        IN  /\ \E r \in IF inside THEN {surface_at(terrain, x, z)} ELSE SurfaceTypes :
                  last' = TerrainCall("surface_at", x, z, index, ~inside, r)
            /\ UNCHANGED <<stroke_count, stats, ball, terrain, wind, dt, threw,
                           launches, ticks, idle, entity, projectiles, nav>>

\* terrain.height_at_world at the world position of grid node (x, z), on a
\* terrain whose arrays are width * depth
HeightAtWorld ==
    /\ WellFormed(terrain)
    /\ \E x \in 0 .. terrain.width - 1, z \in 0 .. terrain.depth - 1 :
          last' = TerrainCall("height_at_world", x, z, CellIndex(terrain, x, z), FALSE,
                      height_at_world(terrain,
                          NodeWorld(x, terrain.width, terrain.cell_size),
                          NodeWorld(z, terrain.depth, terrain.cell_size)))
    /\ UNCHANGED <<stroke_count, stats, ball, terrain, wind, dt, threw, launches, ticks, idle,
                   entity, projectiles, nav>>

NextTerrain == SetData \/ HeightAt \/ SurfaceAt \/ HeightAtWorld

SpecTerrain == InitTerrain /\ [][NextTerrain]_vars

----------------------------------------------------------------------------
(* Properties of the terrain queries                                       *)

\* the in-range coordinate nearest to v on an axis of n cells
NearestInRange(v, n) ==
    CHOOSE c \in 0 .. n - 1 : \A e \in 0 .. n - 1 : Abs(v - c) <= Abs(v - e)

\* C11: on a terrain whose arrays hold width * depth cells, height_at(x, z)
\* and surface_at(x, z) read inside the arrays and return what is stored at
\* the in-range cell nearest to (x, z), for every integer pair (x, z).
C11_ClampedRead ==
    (last.op \in {"height_at", "surface_at"} /\ WellFormed(terrain)) =>
        LET cell == NearestInRange(last.z, terrain.depth) * terrain.width
                    + NearestInRange(last.x, terrain.width)
        IN  /\ ~last.stray
            /\ last.index = cell
            /\ last.op = "height_at" => last.result = terrain.heights[cell]
            /\ last.op = "surface_at" => last.result = terrain.surfaces[cell]

\* a query below the grid in x and beyond it in z, on a grid of several cells
C11_Witness ==
    /\ last.op = "height_at"
    /\ WellFormed(terrain)
    /\ terrain.width >= 2
    /\ last.x < 0
    /\ last.z > terrain.depth - 1
    /\ last.result # 0

\* the node's world position converts back to the node's own grid index
ConvertsBack(t, x, z) ==
    /\ GridCoord(NodeWorld(x, t.width, t.cell_size), t.cell_size, t.width) = x * Scale
    /\ GridCoord(NodeWorld(z, t.depth, t.cell_size), t.cell_size, t.depth) = z * Scale

\* C12 as stated: height_at_world at the world position of every grid node
\* (x, z) equals height_at(x, z) exactly.
C12_NodeHeightIsExact ==
    last.op = "height_at_world" =>
        last.result = height_at(terrain, last.x, last.z)

\* C12, amended: height_at_world at the world position of a grid node (x, z)
\* equals height_at(x, z) exactly whenever the division by cell_size gives
\* back the node's index (as it does for cell sizes 1 and 0.5); with a cell
\* size whose product and quotient round, the result is off the node's value.
C12_NodeHeightWhenConversionExact ==
    (last.op = "height_at_world" /\ ConvertsBack(terrain, last.x, last.z)) =>
        last.result = height_at(terrain, last.x, last.z)

\* an inner node of a sloping grid, with a cell size other than 1
C12_Witness ==
    /\ last.op = "height_at_world"
    /\ ConvertsBack(terrain, last.x, last.z)
    /\ terrain.cell_size # Scale
    /\ last.x >= 1
    /\ last.x < terrain.width - 1
    /\ last.result # 0

\* C13: set_data rejects arrays whose length is not width * depth, so the
\* terrain's arrays always hold width * depth cells.
C13_ArraysMatchGrid == WellFormed(terrain)

----------------------------------------------------------------------------
(* CourseBuilder.h: the circular stamps.  A height that the float code     *)
(* computes as 0 / 0 is the value NaN, and stays NaN in later arithmetic.  *)

NaN == 999999999

\* static_cast<int>(wx / cell_size + width / 2.0f): truncation towards zero
world_to_grid(w, cell_size, n) ==
    LET g == GridCoord(w, cell_size, n) IN Sgn(g) * (Abs(g) \div Scale)

\* dist of cell i from (cx, cz), and whether the loops of paint_circle and
\* of the slope pass reach the cell and find dist <= radius
CellDist(t, i, cx, cz) ==
    LET dx == NodeWorld(i % t.width, t.width, t.cell_size) - cx
        dz == NodeWorld(i \div t.width, t.depth, t.cell_size) - cz
    IN  ISqrt(dx * dx + dz * dz)

\* faulty variant: every cell of the bounding box, whatever its distance
InCircleWholeBox(t, i, cx, cz, r) ==
    LET gx0 == world_to_grid(cx - r, t.cell_size, t.width)
        gz0 == world_to_grid(cz - r, t.cell_size, t.depth)
        gx1 == world_to_grid(cx + r, t.cell_size, t.width)
        gz1 == world_to_grid(cz + r, t.cell_size, t.depth)
    IN  /\ i % t.width >= gx0
        /\ i % t.width <= gx1
        /\ i \div t.width >= gz0
        /\ i \div t.width <= gz1

InCircle(t, i, cx, cz, r) ==
    LET gx0 == world_to_grid(cx - r, t.cell_size, t.width)
        gz0 == world_to_grid(cz - r, t.cell_size, t.depth)
        gx1 == world_to_grid(cx + r, t.cell_size, t.width)
        gz1 == world_to_grid(cz + r, t.cell_size, t.depth)
    IN  /\ i % t.width >= (IF gx0 > 0 THEN gx0 ELSE 0)
        /\ i % t.width <= (IF gx1 < t.width - 1 THEN gx1 ELSE t.width - 1)
        /\ i \div t.width >= (IF gz0 > 0 THEN gz0 ELSE 0)
        /\ i \div t.width <= (IF gz1 < t.depth - 1 THEN gz1 ELSE t.depth - 1)
        /\ CellDist(t, i, cx, cz) <= r

\* the copy of the grid each stamp starts from
GridCopy(t) ==
    [heights  |-> [i \in 0 .. t.width * t.depth - 1 |-> height_at(t, i % t.width, i \div t.width)],
     surfaces |-> [i \in 0 .. t.width * t.depth - 1 |-> surface_at(t, i % t.width, i \div t.width)]]

\* paint_circle on the copy g of terrain t
paint_circle(t, g, cx, cz, r, surface, height_offset, flatten) ==
    LET dist(i) == CellDist(t, i, cx, cz)
        target(i) == height_at(t, i % t.width, i \div t.width) + height_offset
        flat(i) ==
            IF r = 0 \/ g.heights[i] = NaN \/ target(i) >= NaN THEN NaN
            ELSE LET blend == Div(dist(i), r)
                 IN  Mul(g.heights[i], blend) + Mul(target(i), Scale - blend)
                     + height_offset
        raised(i) ==
            IF r = 0 \/ g.heights[i] = NaN THEN NaN
            ELSE g.heights[i] + Mul(height_offset, Scale - Div(dist(i), r))
    IN  [heights |->
            [i \in DOMAIN g.heights |->
                IF ~InCircle(t, i, cx, cz, r) THEN g.heights[i]
                ELSE IF flatten THEN flat(i)
                ELSE IF height_offset # 0 THEN raised(i)
                ELSE g.heights[i]],
         surfaces |->
            [i \in DOMAIN g.surfaces |->
                IF InCircle(t, i, cx, cz, r) THEN surface ELSE g.surfaces[i]]]

\* t.set_data(t.width, t.depth, t.cell_size, h, s)
Restamped(t, g) == set_data(t.width, t.depth, t.cell_size, g.heights, g.surfaces)

\* std::max(tee.width, tee.depth), SurfaceType::Tee, 0.1f, true
stamp_tee(t, tee) ==
    Restamped(t, paint_circle(t, GridCopy(t), tee.position.x, tee.position.z,
                  IF tee.width > tee.depth THEN tee.width ELSE tee.depth,
                  "Tee", 100, TRUE))

\* std::tan of slope_angle degrees, for the angles of GreenDefs
TanDegrees(angle) == CASE angle = 2000 -> 35 [] angle = 5000 -> 87 [] OTHER -> 0

\* the slope pass adds wx * slope_dx + wz * slope_dz inside the circle;
\* slope_dir is 0, so slope_dx is the tangent and slope_dz is 0
stamp_green(t, green) ==
    LET p == paint_circle(t, GridCopy(t), green.center.x, green.center.z,
                          green.radius, "Green", 0, TRUE)
        wx(i) == NodeWorld(i % t.width, t.width, t.cell_size) - green.center.x
        sloped ==
            [i \in DOMAIN p.heights |->
                IF InCircle(t, i, green.center.x, green.center.z, green.radius)
                   /\ p.heights[i] # NaN
                THEN p.heights[i] + Mul(wx(i), TanDegrees(green.slope_angle))
                ELSE p.heights[i]]
    IN  Restamped(t, IF green.slope_angle > 10
                     THEN [heights |-> sloped, surfaces |-> p.surfaces]
                     ELSE p)

\* SurfaceType::Sand, -bunker.depth, true
stamp_bunker(t, bunker) ==
    Restamped(t, paint_circle(t, GridCopy(t), bunker.center.x, bunker.center.z,
                              bunker.radius, "Sand", 0 - bunker.depth, TRUE))

\* SurfaceType::Water, -0.5f, true
stamp_water(t, center, r) ==
    Restamped(t, paint_circle(t, GridCopy(t), center.x, center.z, r,
                              "Water", -500, TRUE))

\* one circle of the fairway strip: SurfaceType::Fairway, -0.05f, no flatten
stamp_fairway_circle(t, center, r) ==
    Restamped(t, paint_circle(t, GridCopy(t), center.x, center.z, r,
                              "Fairway", -50, FALSE))

\* stamp centers: a grid node, a point between nodes, the corner node, a
\* point on the rim of the grid and a point far outside it
StampCenters ==
    {Vec3(0, 0, 0), Vec3(250, 0, -500), Vec3(-2000, 0, -2000),
     Vec3(1500, 0, 0), Vec3(6000, 0, 6000)}

StampRadii == {0, 1000, 1500}

StampKinds == {"tee", "green", "sloped green", "bunker", "water", "fairway"}

Stamp(kind, t, c, r) ==
    CASE kind = "tee"    -> stamp_tee(t, [position |-> c, width |-> r, depth |-> r \div 2])
      [] kind = "green"  -> stamp_green(t, [center |-> c, radius |-> r, slope_angle |-> 0])
      [] kind = "sloped green" ->
                            stamp_green(t, [center |-> c, radius |-> r, slope_angle |-> 2000])
      [] kind = "bunker" -> stamp_bunker(t, [center |-> c, radius |-> r, depth |-> 300])
      [] kind = "water"  -> stamp_water(t, c, r)
      [] kind = "fairway" -> stamp_fairway_circle(t, c, r)

\* the most stamps on one terrain
MaxStamps == 1

StampCall(kind, pre, c, r, n) ==
    [op |-> kind, pre |-> pre, center |-> c, radius |-> r, stamps |-> n]

InitStamp ==
    /\ terrain \in {Slope, Pond, Flat("Rough")}
    /\ last = StampCall("generate_base", terrain, Zero, 0, 0)
    /\ NoGolf
    /\ NoShooter

StampStep ==
    /\ last.stamps < MaxStamps
    /\ \E kind \in StampKinds, c \in StampCenters, r \in StampRadii :
          /\ terrain' = Stamp(kind, terrain, c, r)
          /\ last' = StampCall(kind, terrain, c, r, last.stamps + 1)
    /\ UNCHANGED <<stroke_count, stats, ball, wind, dt, threw, launches, ticks, idle,
                   entity, projectiles, nav>>

NextStamp == StampStep

SpecStamp == InitStamp /\ [][NextStamp]_vars

\* the cell lies strictly farther than r from c, in exact arithmetic
StrictlyOutside(t, i, c, r) ==
    LET dx == NodeWorld(i % t.width, t.width, t.cell_size) - c.x
        dz == NodeWorld(i \div t.width, t.depth, t.cell_size) - c.z
    IN  dx * dx + dz * dz > r * r

IsStamp == last.stamps >= 1

\* C14: after a circular stamp with center c and radius r, every cell whose
\* world position is strictly farther than r from c has the height and the
\* surface it had before the stamp.
C14_StampStaysInCircle ==
    IsStamp =>
        \A i \in DOMAIN terrain.heights :
            StrictlyOutside(terrain, i, last.center, last.radius) =>
                /\ terrain.heights[i] = last.pre.heights[i]
                /\ terrain.surfaces[i] = last.pre.surfaces[i]

\* a stamp that painted some cells and left others, of another surface, alone
C14_Witness ==
    /\ IsStamp
    /\ last.radius > 0
    /\ \E i \in DOMAIN terrain.heights :
          /\ ~StrictlyOutside(terrain, i, last.center, last.radius)
          /\ terrain.heights[i] # last.pre.heights[i]
    /\ \E i \in DOMAIN terrain.heights :
          /\ StrictlyOutside(terrain, i, last.center, last.radius)
          /\ terrain.surfaces[i] # terrain.surfaces[0]

\* C15: a stamp of radius 0 changes no cell's height or surface and produces
\* no invalid height, wherever its center lies.
C15_RadiusZeroIsNoOp ==
    (IsStamp /\ last.radius = 0) =>
        /\ terrain.heights = last.pre.heights
        /\ terrain.surfaces = last.pre.surfaces
        /\ \A i \in DOMAIN terrain.heights : terrain.heights[i] # NaN

----------------------------------------------------------------------------
(* Entity.h: health, damage, death and respawn                             *)

\* Entity e; with the fields a game sets up by hand
NewEntity(position, spawn_position, respawn_delay, destructible) ==
    [position       |-> position,
     health         |-> 100000,
     max_health     |-> 100000,
     alive          |-> TRUE,
     respawn_delay  |-> respawn_delay,
     spawn_position |-> spawn_position,
     hit_flash      |-> 0,
     death_timer    |-> 0,
     destructible   |-> destructible]

\* the flash time set by a hit
HitFlash == 300

\* faulty variant: the health left below zero by an overkill
Entity_take_damage_unclamped(e, dmg) ==
    IF ~e.alive \/ ~e.destructible THEN e
    ELSE IF e.health - dmg <= 0
         THEN [e EXCEPT !.health = e.health - dmg, !.hit_flash = HitFlash,
                        !.alive = FALSE, !.death_timer = 0]
         ELSE [e EXCEPT !.health = e.health - dmg, !.hit_flash = HitFlash]

Entity_take_damage(e, dmg) ==
    IF ~e.alive \/ ~e.destructible THEN e
    ELSE IF e.health - dmg <= 0
         THEN [e EXCEPT !.health = 0, !.hit_flash = HitFlash,
                        !.alive = FALSE, !.death_timer = 0]
         ELSE [e EXCEPT !.health = e.health - dmg, !.hit_flash = HitFlash]

\* the bool take_damage returns: this call killed the entity
Entity_take_damage_returns(e, dmg) ==
    e.alive /\ e.destructible /\ e.health - dmg <= 0

Entity_respawn(e) ==
    [e EXCEPT !.position = e.spawn_position, !.health = e.max_health,
              !.alive = TRUE, !.death_timer = 0, !.hit_flash = 0]

\* faulty variant: a dead entity respawns at its next update
Entity_update_respawns_at_once(e, step) ==
    LET f == [e EXCEPT !.hit_flash =
                 IF e.hit_flash > 0
                 THEN (IF e.hit_flash - step < 0 THEN 0 ELSE e.hit_flash - step)
                 ELSE e.hit_flash]
    IN  IF f.alive THEN f ELSE Entity_respawn(f)

Entity_update(e, step) ==
    LET f == [e EXCEPT !.hit_flash =
                 IF e.hit_flash > 0
                 THEN (IF e.hit_flash - step < 0 THEN 0 ELSE e.hit_flash - step)
                 ELSE e.hit_flash]
        g == [f EXCEPT !.death_timer = f.death_timer + step]
    IN  IF f.alive THEN f
        ELSE IF g.death_timer >= g.respawn_delay THEN Entity_respawn(g)
        ELSE g

\* entities as the tests set them up: the default one, one that spawns
\* away from where it stands and respawns after 1 s, an indestructible one
Entities ==
    { NewEntity(Zero, Zero, 3000, TRUE),
      NewEntity(Vec3(10000, 0, 10000), Vec3(5000, 0, 5000), 1000, TRUE),
      NewEntity(Zero, Zero, 3000, FALSE) }

Damages == {0, 30000, 50000, 100000, 200000}

FrameTimes == {0, 500, 600, 1100}

\* a call on the entity: its kind, the entity before it, its argument, what
\* it returned and the sum of the dt of the updates since the entity died
EntityCall(op, pre, arg, ret, dead_for) ==
    [op |-> op, pre |-> pre, arg |-> arg, ret |-> ret, dead_for |-> dead_for]

InitEntity ==
    /\ entity \in Entities
    /\ last = EntityCall("new", entity, 0, FALSE, 0)
    /\ terrain = <<>>
    /\ projectiles = <<>>
    /\ nav = <<>>
    /\ stats = <<>>
    /\ NoGolf

TakeDamage ==
    \E dmg \in Damages :
        /\ entity' = Entity_take_damage(entity, dmg)
        /\ last' = EntityCall("take_damage", entity, dmg,
                              Entity_take_damage_returns(entity, dmg),
                              IF entity.alive THEN 0 ELSE last.dead_for)
        /\ UNCHANGED <<stroke_count, stats, ball, terrain, wind, dt, threw, launches, ticks, idle,
                       projectiles, nav>>

EntityUpdate ==
    \E step \in FrameTimes :
        /\ entity' = Entity_update(entity, step)
        /\ last' = EntityCall("update", entity, step, FALSE,
                              IF entity.alive THEN 0 ELSE last.dead_for + step)
        /\ UNCHANGED <<stroke_count, stats, ball, terrain, wind, dt, threw, launches, ticks, idle,
                       projectiles, nav>>

Respawn ==
    /\ entity' = Entity_respawn(entity)
    /\ last' = EntityCall("respawn", entity, 0, FALSE, 0)
    /\ UNCHANGED <<stroke_count, stats, ball, terrain, wind, dt, threw, launches, ticks, idle,
                   projectiles, nav>>

NextEntity == TakeDamage \/ EntityUpdate \/ Respawn

SpecEntity == InitEntity /\ [][NextEntity]_vars

\* C16: after any sequence of take_damage, update and respawn on a new
\* entity, 0 <= health <= max_health, the entity is alive exactly when its
\* health is above 0, and a hit larger than the health left leaves health 0.
C16_HealthInRange ==
    /\ entity.health >= 0
    /\ entity.health <= entity.max_health
    /\ entity.alive <=> entity.health > 0
    /\ (/\ last.op = "take_damage"
        /\ last.pre.alive
        /\ last.pre.destructible
        /\ last.arg > last.pre.health) => entity.health = 0

\* an overkill on a wounded entity
C16_Witness ==
    /\ last.op = "take_damage"
    /\ last.pre.alive
    /\ last.pre.health < last.pre.max_health
    /\ last.arg > last.pre.health
    /\ ~entity.alive

\* C17: a dead entity ignores take_damage, which returns false, and stays
\* dead with health 0 through every update until the dt of the updates since
\* its death add up to respawn_delay; the update at which they do makes it
\* alive again with full health at spawn_position.
C17_RespawnAfterDelay ==
    /\ (last.op = "take_damage" /\ ~last.pre.alive) =>
           (entity = last.pre /\ ~last.ret)
    /\ (last.op = "update" /\ ~last.pre.alive) =>
           IF last.dead_for >= last.pre.respawn_delay
           THEN /\ entity.alive
                /\ entity.health = entity.max_health
                /\ entity.position = entity.spawn_position
           ELSE /\ ~entity.alive
                /\ entity.health = 0

\* a respawn by the second or a later update after the death, which took the
\* entity back to a spawn position away from where it died
C17_Witness ==
    /\ last.op = "update"
    /\ ~last.pre.alive
    /\ last.dead_for > last.arg
    /\ entity.alive
    /\ entity.position # last.pre.position

----------------------------------------------------------------------------
(* Projectile.h and the projectile list of Combat.h.  tag tells the        *)
(* projectile objects apart: the n-th projectile fired has tag n.          *)

\* Projectile::update(dt)
Projectile_update(p, step) ==
    IF ~p.active THEN p
    ELSE LET q == [p EXCEPT !.position = VAdd(p.position, VScale(p.velocity, step)),
                            !.age = p.age + step]
             r == [q EXCEPT !.brightness = Scale - Mul(Div(q.age, q.lifetime), 500)]
         IN  IF r.age >= r.lifetime \/ r.position.y < -1000
             THEN [r EXCEPT !.active = FALSE]
             ELSE r

is_alive(p) == p.active /\ p.age < p.lifetime

AllUpdated(list, step) ==
    [i \in 1 .. Len(list) |-> Projectile_update(list[i], step)]

\* faulty variant: the dead projectiles stay in the list
update_projectiles_without_erase(list, step) == AllUpdated(list, step)

\* update_projectiles(projectiles, dt): update each, erase the dead ones
update_projectiles(list, step) == SelectSeq(AllUpdated(list, step), is_alive)

\* the projectile shoot() appends: half a metre ahead of the origin, at
\* config.projectile_speed along the direction
Spawned(origin, direction, config, tag) ==
    [position   |-> VAdd(origin, VScale(direction, 500)),
     velocity   |-> VScale(direction, config.projectile_speed),
     lifetime   |-> config.projectile_lifetime,
     age        |-> 0,
     active     |-> TRUE,
     brightness |-> Scale,
     tag        |-> tag]

\* shots: level and straight down, from eye height
ShotDirections == {Vec3(1000, 0, 0), Vec3(0, -1000, 0)}

ShotOrigin == Vec3(0, 1500, 0)

\* CombatConfig as shipped, and with a short-lived projectile
CombatConfigs ==
    { [projectile_speed |-> 40000, projectile_lifetime |-> 3000],
      [projectile_speed |-> 40000, projectile_lifetime |-> 100] }

ProjectileSteps == {16, 200, 1000}

\* the most shots fired in a run
MaxShots == 2

\* the most update_projectiles calls in a run
MaxProjectileUpdates == 3

\* a call on the list: its kind, the list before it, its dt, the tags of the
\* projectiles erased so far, the shots and the updates so far
CombatCall(op, pre, arg, gone, shots, updates) ==
    [op |-> op, pre |-> pre, arg |-> arg, gone |-> gone, shots |-> shots,
     updates |-> updates]

InitCombat ==
    /\ projectiles = <<>>
    /\ last = CombatCall("new", <<>>, 0, {}, 0, 0)
    /\ terrain = <<>>
    /\ entity = <<>>
    /\ nav = <<>>
    /\ stats = <<>>
    /\ NoGolf

\* shoot(): projectiles.push_back(proj)
Shoot ==
    /\ last.shots < MaxShots
    /\ \E d \in ShotDirections, c \in CombatConfigs :
          projectiles' = Append(projectiles, Spawned(ShotOrigin, d, c, last.shots + 1))
    /\ last' = CombatCall("shoot", projectiles, 0, last.gone, last.shots + 1,
                          last.updates)
    /\ UNCHANGED <<stroke_count, stats, ball, terrain, wind, dt, threw, launches, ticks, idle,
                   entity, nav>>

\* check_projectile_collisions(): proj.active = false for a projectile that
\* hit an entity
Hit ==
    /\ \E i \in 1 .. Len(projectiles) :
          /\ projectiles[i].active
          /\ projectiles' = [projectiles EXCEPT ![i].active = FALSE]
    /\ last' = CombatCall("hit", projectiles, 0, last.gone, last.shots,
                          last.updates)
    /\ UNCHANGED <<stroke_count, stats, ball, terrain, wind, dt, threw, launches, ticks, idle,
                   entity, nav>>

Tags(list) == {list[i].tag : i \in 1 .. Len(list)}

UpdateProjectiles ==
    /\ last.updates < MaxProjectileUpdates
    /\ \E step \in ProjectileSteps :
          /\ projectiles' = update_projectiles(projectiles, step)
          /\ last' = CombatCall("update_projectiles", projectiles, step,
                        last.gone \cup (Tags(projectiles) \ Tags(projectiles')),
                        last.shots, last.updates + 1)
    /\ UNCHANGED <<stroke_count, stats, ball, terrain, wind, dt, threw, launches, ticks, idle,
                   entity, nav>>

NextCombat == Shoot \/ Hit \/ UpdateProjectiles

SpecCombat == InitCombat /\ [][NextCombat]_vars

\* s is t with some elements left out, the others in the same order
RECURSIVE IsSubSeq(_, _)
IsSubSeq(s, t) ==
    IF s = <<>> THEN TRUE
    ELSE IF t = <<>> THEN FALSE
    ELSE IF Head(s) = Head(t) THEN IsSubSeq(Tail(s), Tail(t))
    ELSE IsSubSeq(s, Tail(t))

\* C18: after update_projectiles(list, dt) the list holds exactly the
\* projectiles that are alive (active and age < lifetime) once advanced by
\* dt, in their original order; one whose age reached its lifetime or whose
\* y fell below -1 is gone, and a projectile once erased is never in the
\* list again.
C18_OnlyAliveRemain ==
    /\ \A i \in 1 .. Len(projectiles) : projectiles[i].tag \notin last.gone
    /\ last.op = "update_projectiles" =>
          /\ IsSubSeq(projectiles, [i \in 1 .. Len(last.pre) |->
                                      Projectile_update(last.pre[i], last.arg)])
          /\ \A i \in 1 .. Len(projectiles) :
                projectiles[i].active /\ projectiles[i].age < projectiles[i].lifetime
          /\ \A i \in 1 .. Len(last.pre) :
                LET p == Projectile_update(last.pre[i], last.arg)
                IN  /\ (p.active /\ p.age < p.lifetime)
                           => p.tag \in Tags(projectiles)
                    /\ (p.age >= p.lifetime \/ p.position.y < -1000)
                           => p.tag \notin Tags(projectiles)

\* an update that erased a projectile ahead of one it kept
C18_Witness ==
    /\ last.op = "update_projectiles"
    /\ Len(last.pre) = 2
    /\ Len(projectiles) = 1
    /\ projectiles[1].tag = last.pre[2].tag
    /\ projectiles[1].age > 0

----------------------------------------------------------------------------
(* NavigationSystem.h: A* on a grid.  A navigation system n is [width,     *)
(* depth, scale, nodes, current_search_id]; node i = z * width + x holds   *)
(* [walkable, g, h, f, parent, search_id], parent a node index or NoNode.  *)

\* nullptr
NoNode == -1

\* neighbor->g = 1e9f
Unvisited == 1000000000

\* init(w, d, s)
NavInit(w, d, s) ==
    [width |-> w, depth |-> d, scale |-> s, current_search_id |-> 0,
     nodes |-> [i \in 0 .. w * d - 1 |->
                  [walkable |-> TRUE, g |-> 0, h |-> 0, f |-> 0,
                   parent |-> NoNode, search_id |-> 0]]]

\* {world_x, 0, world_z} of node i
NodePoint(n, i) ==
    Vec3(NodeWorld(i % n.width, n.width, n.scale), 0,
         NodeWorld(i \div n.width, n.depth, n.scale))

\* faulty variant: the node diagonally below joins the neighbors
NeighborsWithDiagonal(n, i) ==
    (IF i % n.width > 0 THEN <<i - 1>> ELSE <<>>)
    \o (IF i % n.width < n.width - 1 THEN <<i + 1>> ELSE <<>>)
    \o (IF i \div n.width > 0 THEN <<i - n.width>> ELSE <<>>)
    \o (IF i \div n.width < n.depth - 1 THEN <<i + n.width>> ELSE <<>>)
    \o (IF i % n.width < n.width - 1 /\ i \div n.width < n.depth - 1
        THEN <<i + n.width + 1>> ELSE <<>>)

\* Node::neighbors of node i, in the order init pushes them
Neighbors(n, i) ==
    (IF i % n.width > 0 THEN <<i - 1>> ELSE <<>>)
    \o (IF i % n.width < n.width - 1 THEN <<i + 1>> ELSE <<>>)
    \o (IF i \div n.width > 0 THEN <<i - n.width>> ELSE <<>>)
    \o (IF i \div n.width < n.depth - 1 THEN <<i + n.width>> ELSE <<>>)

mark_obstacle(n, x, z, r) ==
    [n EXCEPT !.nodes =
        [i \in DOMAIN n.nodes |->
            LET dx == NodePoint(n, i).x - x
                dz == NodePoint(n, i).z - z
            IN  IF dx * dx + dz * dz < r * r
                THEN [n.nodes[i] EXCEPT !.walkable = FALSE]
                ELSE n.nodes[i]]]

get_node(n, x, z) ==
    LET gx == world_to_grid(x, n.scale, n.width)
        gz == world_to_grid(z, n.scale, n.depth)
    IN  IF gx >= 0 /\ gx < n.width /\ gz >= 0 /\ gz < n.depth
        THEN gz * n.width + gx
        ELSE NoNode

\* std::sqrt(std::pow(a->x - b->x, 2) + std::pow(a->z - b->z, 2))
Heuristic(n, a, b) ==
    LET dx == (a % n.width) - (b % n.width)
        dz == (a \div n.width) - (b \div n.width)
    IN  ISqrt((dx * dx + dz * dz) * Scale * Scale)

\* std::sort of the open set by f.  The open set never holds more than 16
\* nodes here, and for such a range std::sort is an insertion sort, which
\* keeps nodes of equal f in the order they had.
RECURSIVE InsertByF(_, _, _)
InsertByF(n, sorted, v) ==
    IF sorted = <<>> THEN <<v>>
    ELSE IF n.nodes[v].f < n.nodes[Head(sorted)].f THEN <<v>> \o sorted
    ELSE <<Head(sorted)>> \o InsertByF(n, Tail(sorted), v)

RECURSIVE SortByF(_, _)
SortByF(n, open) ==
    IF open = <<>> THEN <<>>
    ELSE InsertByF(n, SortByF(n, SubSeq(open, 1, Len(open) - 1)), open[Len(open)])

\* faulty variant: the data an earlier search left in a node is kept
VisitKeepsOldData(n, nb) == n

\* if (neighbor->search_id != current_search_id) { reset }
Visit(n, nb) ==
    IF n.nodes[nb].search_id # n.current_search_id
    THEN [n EXCEPT !.nodes[nb].g = Unvisited,
                   !.nodes[nb].search_id = n.current_search_id,
                   !.nodes[nb].parent = NoNode]
    ELSE n

\* the loop over current->neighbors; the result is [nav, open]
RECURSIVE Relax(_, _, _, _, _)
Relax(n, open, current, nbrs, end_node) ==
    IF nbrs = <<>> THEN [nav |-> n, open |-> open]
    ELSE LET nb == Head(nbrs)
             v  == Visit(n, nb)
             tentative_g == v.nodes[current].g + Scale
             h  == Heuristic(n, nb, end_node)
         IN  IF ~n.nodes[nb].walkable
             THEN Relax(n, open, current, Tail(nbrs), end_node)
             ELSE IF tentative_g < v.nodes[nb].g
             THEN Relax([v EXCEPT !.nodes[nb].parent = current,
                                  !.nodes[nb].g = tentative_g,
                                  !.nodes[nb].h = h,
                                  !.nodes[nb].f = tentative_g + h],
                        IF \E k \in 1 .. Len(open) : open[k] = nb
                        THEN open ELSE Append(open, nb),
                        current, Tail(nbrs), end_node)
             ELSE Relax(v, open, current, Tail(nbrs), end_node)

\* the path from the node whose parent is null to node i
RECURSIVE Reconstruct(_, _)
Reconstruct(n, i) ==
    IF i = NoNode THEN <<>>
    ELSE Append(Reconstruct(n, n.nodes[i].parent), NodePoint(n, i))

\* while (!open_set.empty()); the result is [nav, path]
RECURSIVE SearchLoop(_, _, _)
SearchLoop(n, open, end_node) ==
    IF open = <<>> THEN [nav |-> n, path |-> <<>>]
    ELSE LET sorted  == SortByF(n, open)
             current == Head(sorted)
             r == Relax(n, Tail(sorted), current, Neighbors(n, current), end_node)
         IN  IF current = end_node
             THEN [nav |-> n, path |-> Reconstruct(n, end_node)]
             ELSE SearchLoop(r.nav, r.open, end_node)

\* find_path(start, end); the result is [nav, path]
find_path(n, start, end) ==
    LET m == [n EXCEPT !.current_search_id = n.current_search_id + 1]
        start_node == get_node(m, start.x, start.z)
        end_node   == get_node(m, end.x, end.z)
        h == Heuristic(m, start_node, end_node)
    IN  IF start_node = NoNode \/ end_node = NoNode
        THEN [nav |-> m, path |-> <<>>]
        ELSE IF ~m.nodes[start_node].walkable \/ ~m.nodes[end_node].walkable
        THEN [nav |-> m, path |-> <<>>]
        ELSE IF start_node = end_node
        THEN [nav |-> m, path |-> <<end>>]
        ELSE SearchLoop([m EXCEPT !.nodes[start_node].g = 0,
                                  !.nodes[start_node].h = h,
                                  !.nodes[start_node].f = h,
                                  !.nodes[start_node].parent = NoNode,
                                  !.nodes[start_node].search_id = m.current_search_id],
                        <<start_node>>, end_node)

\* a 3 x 3 grid and a 4 x 2 grid of 1 m cells
NavGrids == {NavInit(3, 3, Scale), NavInit(4, 2, Scale)}

\* obstacles <<x, z, radius>>: on the middle column, and wide enough to
\* cover two nodes
Obstacles == {<<-500, -500, 300>>, <<-500, -1500, 300>>, <<-500, 500, 300>>,
              <<500, 0, 600>>}

\* the ends of a search: points inside cells and one off the grid
NavPoints == {Vec3(-1200, 0, -400), Vec3(-500, 0, -500), Vec3(700, 0, 900),
              Vec3(5000, 0, 0)}

\* the most find_path calls on one navigation system
MaxSearches == 2

NavCall(op, start, end, path) ==
    [op |-> op, start |-> start, end |-> end, path |-> path]

InitNav ==
    /\ nav \in NavGrids
    /\ stats = <<>>
    /\ last = NavCall("init", Zero, Zero, <<>>)
    /\ terrain = <<>>
    /\ entity = <<>>
    /\ projectiles = <<>>
    /\ NoGolf

MarkObstacle ==
    /\ \E o \in Obstacles :
          /\ nav' = mark_obstacle(nav, o[1], o[2], o[3])
          /\ nav' # nav
    /\ last' = NavCall("mark_obstacle", Zero, Zero, <<>>)
    /\ UNCHANGED <<stroke_count, stats, ball, terrain, wind, dt, threw, launches, ticks, idle,
                   entity, projectiles>>

FindPath ==
    /\ nav.current_search_id < MaxSearches
    /\ \E start \in NavPoints, end \in NavPoints :
          LET found == find_path(nav, start, end)
          IN  /\ nav' = found.nav
              /\ last' = NavCall("find_path", start, end, found.path)
    /\ UNCHANGED <<stroke_count, stats, ball, terrain, wind, dt, threw, launches, ticks, idle,
                   entity, projectiles>>

\* world positions handed to get_node: below the low edge along x and along
\* z, inside the grid, and beyond the high edge
ProbePoints ==
    { Vec3(-2300, 0, 0), Vec3(0, 0, -2300), Vec3(-1200, 0, -400),
      Vec3(0, 0, 0), Vec3(2300, 0, 0), Vec3(5000, 0, 5000) }

\* a call of get_node(x, z); path holds the index of the node returned, and is
\* empty for a null pointer
GetNode ==
    /\ \E p \in ProbePoints :
          LET node == get_node(nav, p.x, p.z)
          IN  last' = NavCall("get_node", p, Zero,
                              IF node = NoNode THEN <<>> ELSE <<node>>)
    /\ UNCHANGED <<stroke_count, stats, ball, terrain, wind, dt, threw, launches, ticks, idle,
                   entity, projectiles, nav>>

NextNav == MarkObstacle \/ FindPath \/ GetNode

SpecNav == InitNav /\ [][NextNav]_vars

\* nodes a and b are next to each other along x or along z
Adjacent4(n, a, b) ==
    Abs((a % n.width) - (b % n.width)) + Abs((a \div n.width) - (b \div n.width)) = 1

\* the walkable nodes a chain of 4-adjacent walkable nodes joins to the set
RECURSIVE Reachable(_, _)
Reachable(n, from) ==
    LET more == { i \in DOMAIN n.nodes :
                    /\ n.nodes[i].walkable
                    /\ \E j \in from : Adjacent4(n, i, j) }
    IN  IF more \subseteq from THEN from ELSE Reachable(n, from \cup more)

\* the nodes whose world position is point p
NodesAt(n, p) == { i \in DOMAIN n.nodes : NodePoint(n, i) = p }

\* C19: a path of two or more points that find_path returns starts at the
\* start node's world position and ends at the end node's, every two
\* consecutive points are 4-adjacent grid nodes, and every node on it is
\* walkable.
C19_PathIsAWalk ==
    (last.op = "find_path" /\ Len(last.path) >= 2) =>
        /\ last.path[1] = NodePoint(nav, get_node(nav, last.start.x, last.start.z))
        /\ last.path[Len(last.path)]
               = NodePoint(nav, get_node(nav, last.end.x, last.end.z))
        /\ \A k \in 1 .. Len(last.path) :
               \E i \in NodesAt(nav, last.path[k]) : nav.nodes[i].walkable
        /\ \A k \in 1 .. Len(last.path) - 1 :
               \E i \in NodesAt(nav, last.path[k]), j \in NodesAt(nav, last.path[k + 1]) :
                   Adjacent4(nav, i, j)

\* a path that goes round an obstacle: longer than the straight way
C19_Witness ==
    /\ last.op = "find_path"
    /\ \E i \in DOMAIN nav.nodes : ~nav.nodes[i].walkable
    /\ Len(last.path) >= 2
    /\ Len(last.path) - 1 >
           LET s == get_node(nav, last.start.x, last.start.z)
               e == get_node(nav, last.end.x, last.end.z)
           IN  Abs((s % nav.width) - (e % nav.width))
               + Abs((s \div nav.width) - (e \div nav.width))

\* C20: with start and end on walkable nodes, find_path returns a non-empty
\* path exactly when a chain of 4-adjacent walkable nodes joins the two
\* nodes, a single point when they are the same node; it returns the empty
\* path when start or end is on no node or on an unwalkable one.  This holds
\* for each search of a sequence, whatever the earlier ones left in the nodes.
C20_PathIffConnected ==
    last.op = "find_path" =>
        LET s == get_node(nav, last.start.x, last.start.z)
            e == get_node(nav, last.end.x, last.end.z)
        IN  IF s = NoNode \/ e = NoNode THEN last.path = <<>>
            ELSE IF ~nav.nodes[s].walkable \/ ~nav.nodes[e].walkable
            THEN last.path = <<>>
            ELSE /\ (last.path # <<>>) <=> (e \in Reachable(nav, {s}))
                 /\ (s = e) => Len(last.path) = 1

\* a search after an earlier one, between two walkable nodes that an
\* obstacle cuts off from each other, through nodes the earlier search used
C20_Witness ==
    /\ last.op = "find_path"
    /\ nav.current_search_id >= 2
    /\ get_node(nav, last.start.x, last.start.z) # NoNode
    /\ get_node(nav, last.end.x, last.end.z) # NoNode
    /\ nav.nodes[get_node(nav, last.start.x, last.start.z)].walkable
    /\ nav.nodes[get_node(nav, last.end.x, last.end.z)].walkable
    /\ last.path = <<>>
    /\ \E i \in DOMAIN nav.nodes :
          nav.nodes[i].search_id = 1 /\ nav.nodes[i].parent # NoNode

\* the world position p lies on the grid: between the low edge -width*scale/2
\* (included) and the high edge width*scale/2 (excluded), along x and along z
InExtent(n, p) ==
    /\ 2 * p.x >= -(n.width * n.scale)
    /\ 2 * p.x < n.width * n.scale
    /\ 2 * p.z >= -(n.depth * n.scale)
    /\ 2 * p.z < n.depth * n.scale

\* C21: get_node returns a node for the world positions inside the extent of
\* the grid and a null pointer for every position outside it, below the low
\* edge as well as beyond the high edge
C21_NodeIffInExtent ==
    last.op = "get_node" =>
        (last.path # <<>> <=> InExtent(nav, last.start))

----------------------------------------------------------------------------
(* Landing: shots without spin, the weakest ones included, followed until  *)
(* the ball is at rest                                                     *)

\* launch velocities: power 0 (the space key pressed and released within a
\* frame), the velocity of the wind of two scenarios, and a chip
LandingVelocities ==
    { Zero, Vec3(1000, 0, 0), Vec3(0, 2000, -2750) }

\* a shot is taken only with the ball stopped
LandingLaunch ==
    /\ launches < MaxLaunches
    /\ ball.stopped
    /\ \E velocity \in LandingVelocities : LaunchStep(velocity, Zero)

\* physics.update(ball, terrain, dt) on a ball in Flight or Rolling; the
\* updates are not counted, a run goes on until the ball is at rest
LandingUpdate ==
    /\ ~threw
    /\ ~AtRest(ball)
    /\ ball' = update(ball, terrain, wind, dt)
    /\ threw' = update_throws(ball, wind)
    /\ last' = [op  |-> "update",
                pre |-> ball,
                mid |-> IF ball.in_flight /\ ~update_throws(ball, wind)
                        THEN update_flight(ball, wind, dt) ELSE ball,
                velocity |-> Zero, spin |-> Zero]
    /\ UNCHANGED <<stroke_count, stats, terrain, wind, dt, launches, ticks, idle,
                   entity, projectiles, nav>>

NextLanding == LandingLaunch \/ LandingUpdate

SpecLanding == Init /\ [][NextLanding]_vars

\* the last call was an update() of a ball in Flight whose flight step ended
\* at or below the contact height, over a surface other than Water
EndsAtContact ==
    /\ last.op = "update"
    /\ ~threw
    /\ last.pre.in_flight
    /\ last.mid.position.y
         <= height_at_world(terrain, last.mid.position.x, last.mid.position.z) + radius
    /\ surface_at_world(terrain, last.mid.position.x, last.mid.position.z) # "Water"

\* C22: an update() of a ball in Flight that ends at or below the contact
\* height on a surface other than Water leaves the ball Rolling with
\* velocity.y = 0 when the vertical velocity it ends with is below 0.5, and in
\* Flight only when that velocity is 0.5 or more
C22_ContactOutcome ==
    EndsAtContact =>
        \/ ball.rolling /\ ~ball.in_flight /\ ball.velocity.y = 0
        \/ ball.in_flight /\ ~ball.rolling /\ ball.velocity.y >= DeadBounce

\* C28: a launched ball lands: whatever the launch velocity, the wind, the
\* frame time and the terrain, repeated update() calls take a ball in Flight
\* out of Flight. update() is a function of the ball, the terrain, the wind
\* and dt, which stay the same from call to call, so the calls can end the
\* flight only if none of them leaves a ball in Flight exactly as it was
C28_LaunchedBallLands ==
    [][(last'.op = "update" /\ ball.in_flight) => ball' # ball]_vars

\* the height of the ball's center when it touches the ground below it
ContactHeight(b) ==
    height_at_world(terrain, b.position.x, b.position.z) + radius

\* C29: after every update() of a ball in Flight or Rolling the ball is not
\* below the ground: position.y >= height_at_world(position.x, position.z) +
\* radius, with equality when the call ends Rolling, Stopped or InWater
C29_NeverBelowGround ==
    (last.op = "update" /\ ~threw /\ ~AtRest(last.pre)) =>
        /\ ball.position.y >= ContactHeight(ball)
        /\ (ball.rolling \/ ball.stopped \/ ball.in_water) =>
              ball.position.y = ContactHeight(ball)

\* a flight step that went below the ground and ended Rolling, on a slope
C29_Witness ==
    /\ last.op = "update"
    /\ last.pre.in_flight
    /\ last.mid.position.y < ContactHeight(last.mid)
    /\ ball.rolling
    /\ ContactHeight(ball) > radius

\* the height offset of the flatten stamps of Stamp: stamp_tee 0.1,
\* stamp_bunker -depth, stamp_water -0.5, stamp_green 0
FlattenOffset(kind) ==
    CASE kind = "tee"    -> 100
      [] kind = "bunker" -> -300
      [] kind = "water"  -> -500
      [] OTHER           -> 0

\* C24: after a flatten stamp with offset o and radius r > 0, a cell at
\* distance d <= r whose height before the stamp was H has the height
\* H * (d / r) + (H + o) * (1 - d / r): H + o at the center, H on the rim
C24_FlattenBlend ==
    (IsStamp /\ last.op \in {"tee", "bunker", "water", "green"} /\ last.radius > 0) =>
        \A i \in DOMAIN terrain.heights :
            InCircle(last.pre, i, last.center.x, last.center.z, last.radius) =>
                LET H     == last.pre.heights[i]
                    blend == Div(CellDist(last.pre, i, last.center.x, last.center.z),
                                 last.radius)
                IN  terrain.heights[i]
                      = Mul(H, blend) + Mul(H + FlattenOffset(last.op), Scale - blend)

----------------------------------------------------------------------------
(* CourseBuilder.h: stamp_fairway and stamp_hole                           *)

\* the samples of the segment from control point p0 to p1: position and
\* fairway width at t_val = s_idx / steps, s_idx = 0 .. steps
FairwaySegment(p0, p1) ==
    LET len   == Length(VSub(p0.position, p1.position))
        steps == Floor(Div(len, 500)) + 1
    IN  [s \in 1 .. steps + 1 |->
            LET t_val == Div((s - 1) * Scale, steps * Scale)
            IN  [pos   |-> VAdd(p0.position,
                                VScale(VSub(p1.position, p0.position), t_val)),
                 width |-> p0.width + Mul(p1.width - p0.width, t_val)]]

\* the samples of all the segments, in the order of the loops
RECURSIVE FairwaySamples(_)
FairwaySamples(fairway) ==
    IF Len(fairway) < 2 THEN <<>>
    ELSE FairwaySegment(fairway[1], fairway[2]) \o FairwaySamples(Tail(fairway))

\* the first loop of stamp_fairway: per sample, the Fairway circle lowered by
\* 0.05 and then the Rough border, 5 m wider
RECURSIVE PaintStrip(_, _, _)
PaintStrip(t, g, samples) ==
    IF samples = <<>> THEN g
    ELSE LET s == Head(samples)
             f == paint_circle(t, g, s.pos.x, s.pos.z, Mul(s.width, 500),
                               "Fairway", -50, FALSE)
         IN  PaintStrip(t, paint_circle(t, f, s.pos.x, s.pos.z,
                                        Mul(s.width, 500) + 5000, "Rough", 0, FALSE),
                        Tail(samples))

\* the second loop of stamp_fairway: the Fairway circles again, offset 0
RECURSIVE RepaintFairway(_, _, _)
RepaintFairway(t, g, samples) ==
    IF samples = <<>> THEN g
    ELSE LET s == Head(samples)
         IN  RepaintFairway(t, paint_circle(t, g, s.pos.x, s.pos.z,
                                            Mul(s.width, 500), "Fairway", 0, FALSE),
                            Tail(samples))

\* faulty variant: the second loop is left out
stamp_fairway_single_pass(t, hole) ==
    Restamped(t, PaintStrip(t, GridCopy(t), FairwaySamples(hole.fairway)))

stamp_fairway(t, hole) ==
    LET samples == FairwaySamples(hole.fairway)
    IN  Restamped(t, RepaintFairway(t, PaintStrip(t, GridCopy(t), samples), samples))

\* for (const auto& b : hole.bunkers) stamp_bunker(t, b)
RECURSIVE StampBunkers(_, _)
StampBunkers(t, bunkers) ==
    IF bunkers = <<>> THEN t
    ELSE StampBunkers(stamp_bunker(t, Head(bunkers)), Tail(bunkers))

\* the water stamp, if the hole has water
StampWater(t, hole) ==
    IF hole.has_water THEN stamp_water(t, hole.water_center, hole.water_radius)
    ELSE t

\* faulty variant: the water is stamped before the bunkers
stamp_hole_water_before_bunkers(t, hole) ==
    StampBunkers(StampWater(stamp_green(stamp_tee(stamp_fairway(t, hole), hole.tee),
                                        hole.green), hole),
                 hole.bunkers)

stamp_hole(t, hole) ==
    StampWater(StampBunkers(stamp_green(stamp_tee(stamp_fairway(t, hole), hole.tee),
                                        hole.green),
                            hole.bunkers),
               hole)

\* the terrains of the stamps with cells of 4 m, so that a 5 m border does
\* not reach every cell
CoarseTerrains ==
    { [t EXCEPT !.cell_size = 4000] :
        t \in {Slope, Pond, Flat("Rough"), Flat("Green")} }

\* fairways: one control point (no segment), a short straight one, one that
\* widens along the edge of the grid, and one with a bend
Fairways ==
    { << [position |-> Vec3(0, 0, 0), width |-> 2000] >>,
      << [position |-> Vec3(0, 0, 0), width |-> 2000],
         [position |-> Vec3(1000, 0, 0), width |-> 2000] >>,
      << [position |-> Vec3(-8000, 0, -8000), width |-> 2000],
         [position |-> Vec3(-8000, 0, -6000), width |-> 4000] >>,
      << [position |-> Vec3(-4000, 0, 4000), width |-> 2000],
         [position |-> Vec3(-3000, 0, 4000), width |-> 2000],
         [position |-> Vec3(-3000, 0, 3000), width |-> 2000] >> }

BunkerLists ==
    LET b1 == [center |-> Vec3(0, 0, 0), radius |-> 1000, depth |-> 300]
        b2 == [center |-> Vec3(-4000, 0, -4000), radius |-> 4500, depth |-> 400]
    IN  { <<>>, <<b1, b2>> }

Holes ==
    { [tee          |-> [position |-> Vec3(4000, 0, 4000), width |-> 1000, depth |-> 2000],
       green        |-> [center |-> Vec3(-4000, 0, 0), radius |-> 4000, slope_angle |-> 2000],
       fairway      |-> f,
       bunkers      |-> b,
       has_water    |-> w,
       water_center |-> Vec3(0, 0, -4000),
       water_radius |-> 4000] :
      f \in Fairways, b \in BunkerLists, w \in BOOLEAN }

HoleCall(op, pre, hole, n) ==
    [op |-> op, pre |-> pre, hole |-> hole, stamps |-> n]

InitHole ==
    /\ terrain \in CoarseTerrains
    /\ last = HoleCall("generate_base", terrain, <<>>, 0)
    /\ NoGolf
    /\ NoShooter

StampFairway ==
    /\ last.stamps < MaxStamps
    /\ \E hole \in Holes :
          /\ terrain' = stamp_fairway(terrain, hole)
          /\ last' = HoleCall("stamp_fairway", terrain, hole, last.stamps + 1)
    /\ UNCHANGED <<stroke_count, stats, ball, wind, dt, threw, launches, ticks, idle,
                   entity, projectiles, nav>>

StampHole ==
    /\ last.stamps < MaxStamps
    /\ \E hole \in Holes :
          /\ terrain' = stamp_hole(terrain, hole)
          /\ last' = HoleCall("stamp_hole", terrain, hole, last.stamps + 1)
    /\ UNCHANGED <<stroke_count, stats, ball, wind, dt, threw, launches, ticks, idle,
                   entity, projectiles, nav>>

NextHole == StampFairway \/ StampHole

SpecHole == InitHole /\ [][NextHole]_vars

\* cell i lies within r of c, in exact arithmetic
Within(t, i, c, r) == ~StrictlyOutside(t, i, c, r)

\* cell i lies within half the width, plus extra, of some sample
NearSample(t, i, samples, extra) ==
    \E k \in DOMAIN samples :
        Within(t, i, samples[k].pos, Mul(samples[k].width, 500) + extra)

\* the surface the features of the hole give cell i: the latest stamped
\* feature that contains the cell decides, and the surface before the stamp
\* stays where no feature reaches
FeatureSurface(t, i, hole) ==
    LET samples == FairwaySamples(hole.fairway)
        tee_r   == IF hole.tee.width > hole.tee.depth
                   THEN hole.tee.width ELSE hole.tee.depth
    IN  IF hole.has_water /\ Within(t, i, hole.water_center, hole.water_radius)
        THEN "Water"
        ELSE IF \E k \in DOMAIN hole.bunkers :
                   Within(t, i, hole.bunkers[k].center, hole.bunkers[k].radius)
        THEN "Sand"
        ELSE IF Within(t, i, hole.green.center, hole.green.radius) THEN "Green"
        ELSE IF Within(t, i, hole.tee.position, tee_r) THEN "Tee"
        ELSE IF NearSample(t, i, samples, 0) THEN "Fairway"
        ELSE IF NearSample(t, i, samples, 5000) THEN "Rough"
        ELSE t.surfaces[i]

\* C23: after stamp_hole the surface of every cell is that of the feature
\* stamped latest among those whose circle contains the cell (the fairway
\* corridor with its border, the tee, the green, the bunkers in list order,
\* the water), and a cell no feature covers keeps its surface
C23_LatestFeatureWins ==
    last.op = "stamp_hole" =>
        \A i \in DOMAIN terrain.surfaces :
            terrain.surfaces[i] = FeatureSurface(last.pre, i, last.hole)

\* a hole with water over a bunker and over the green, and a cell out of reach
C23_Witness ==
    /\ last.op = "stamp_hole"
    /\ last.hole.has_water
    /\ \E i \in DOMAIN terrain.surfaces :
          /\ terrain.surfaces[i] = "Water"
          /\ last.pre.surfaces[i] # "Water"
          /\ \E k \in DOMAIN last.hole.bunkers :
                Within(last.pre, i, last.hole.bunkers[k].center,
                       last.hole.bunkers[k].radius)
    /\ \E i \in DOMAIN terrain.surfaces : terrain.surfaces[i] = "Green"
    /\ \E i \in DOMAIN terrain.surfaces : terrain.surfaces[i] = "Tee"
    /\ \E i \in DOMAIN terrain.surfaces : terrain.surfaces[i] = "Fairway"
    /\ \E i \in DOMAIN terrain.surfaces :
          /\ ~NearSample(last.pre, i, FairwaySamples(last.hole.fairway), 5000)
          /\ terrain.surfaces[i] = last.pre.surfaces[i]
          /\ terrain.surfaces[i] = "Green"

\* C25: in stamp_fairway the overlapping circles of the samples overwrite
\* each other and do not add up: no cell ends more than 0.05 below the height
\* it had before
C25_LoweredAtMostOnce ==
    last.op = "stamp_fairway" =>
        \A i \in DOMAIN terrain.heights :
            /\ terrain.heights[i] <= last.pre.heights[i]
            /\ terrain.heights[i] >= last.pre.heights[i] - 50

\* C26: after stamp_fairway every cell within width/2 of some sample is
\* Fairway, every cell within width/2 + 5 of some sample and within width/2
\* of none is Rough, and the second loop changes no height
C26_FairwayInsideRoughBorder ==
    last.op = "stamp_fairway" =>
        LET samples == FairwaySamples(last.hole.fairway)
        IN  /\ \A i \in DOMAIN terrain.surfaces :
                  /\ NearSample(last.pre, i, samples, 0) =>
                        terrain.surfaces[i] = "Fairway"
                  /\ (NearSample(last.pre, i, samples, 5000)
                        /\ ~NearSample(last.pre, i, samples, 0)) =>
                        terrain.surfaces[i] = "Rough"
            /\ terrain.heights
                 = PaintStrip(last.pre, GridCopy(last.pre), samples).heights

\* a fairway with a bend: Fairway cells, Rough cells that were not Rough
\* before, and cells the border does not reach
C26_Witness ==
    /\ last.op = "stamp_fairway"
    /\ Len(last.hole.fairway) = 3
    /\ \E i \in DOMAIN terrain.surfaces : terrain.surfaces[i] = "Fairway"
    /\ \E i \in DOMAIN terrain.surfaces :
          terrain.surfaces[i] = "Rough" /\ last.pre.surfaces[i] # "Rough"
    /\ \E i \in DOMAIN terrain.surfaces :
          ~NearSample(last.pre, i, FairwaySamples(last.hole.fairway), 5000)

----------------------------------------------------------------------------
(* main.cpp: the strokes of a hole, with the water penalty                 *)

\* hole.tee.position of the current hole
CurrentTee ==
    (CHOOSE sc \in Scenarios :
        sc.terrain = terrain /\ sc.wind = wind /\ sc.dt = dt).tee

\* handle_events: the shot on releasing the space key, possible when the
\* ball is stopped; the stroke is counted
RoundLaunch ==
    /\ ~threw
    /\ ball.stopped
    /\ launches < MaxLaunches
    /\ \E in \in LaunchInputs :
          /\ ball' = launch(ball, in.velocity, in.spin)
          /\ last' = [op |-> "launch", pre |-> ball, moved |-> ball,
                      strokes |-> stroke_count]
    /\ stroke_count' = stroke_count + 1
    /\ launches' = launches + 1
    /\ ticks' = 0
    /\ idle' = 0
    /\ UNCHANGED <<terrain, wind, dt, threw, entity, projectiles, nav, stats>>

\* update(app, dt): the ball after physics.update(app.ball, app.terrain, dt)
Moved == update(ball, terrain, wind, dt)

\* update(app, dt): if (app.ball.in_water), after an update that returned
InWaterHazard == Moved.in_water /\ ~update_throws(ball, wind)

\* update(app, dt) without enemies: physics.update, then the water penalty:
\* stroke_count++, setup_hole (which puts the ball on the tee and sets
\* stroke_count = 0), and stroke_count = stroke_count
RoundUpdate ==
    /\ ~threw
    /\ CanUpdate(MaxTicks)
    /\ ball' = IF InWaterHazard THEN TeeUp(terrain, CurrentTee) ELSE Moved
    /\ stroke_count' = IF InWaterHazard THEN 0 ELSE stroke_count
    /\ last' = [op |-> "update", pre |-> ball, moved |-> Moved,
                strokes |-> stroke_count]
    /\ threw' = update_throws(ball, wind)
    /\ ticks' = IF AtRest(ball) THEN ticks ELSE ticks + 1
    /\ idle' = IF AtRest(ball) THEN idle + 1 ELSE 0
    /\ UNCHANGED <<terrain, wind, dt, launches, entity, projectiles, nav, stats>>

NextRound == RoundLaunch \/ RoundUpdate

SpecRound == Init /\ [][NextRound]_vars

\* C27: the water penalty survives the reset of the ball: after the
\* update(app, dt) that handles the hazard, stroke_count is one more than it
\* was before the call
C27_PenaltyStrokeKept ==
    (last.op = "update" /\ ~threw /\ last.moved.in_water) =>
        stroke_count = last.strokes + 1

----------------------------------------------------------------------------
(* AABB.h and Combat.h: shots, hits and the CombatStats                    *)

\* std::numeric_limits<float>::infinity()
Infinity == 1000000000

\* AABB::from_center(center, half) with a uniform half-extent
from_center(center, half) ==
    [min |-> VSub(center, Vec3(half, half, half)),
     max |-> VAdd(center, Vec3(half, half, half))]

\* Entity::world_bounds(): local_bounds of half-extent 0.5, scale (1, 1, 1)
world_bounds(e) == from_center(e.position, 500)

\* AABB::intersects
intersects(a, b) ==
    /\ a.min.x <= b.max.x /\ a.max.x >= b.min.x
    /\ a.min.y <= b.max.y /\ a.max.y >= b.min.y
    /\ a.min.z <= b.max.z /\ a.max.z >= b.min.z

\* the lambda slab of ray_intersect on one axis: tm holds tmin, tmax and
\* whether the slabs so far returned true
Slab(o, d, lo, hi, tm) ==
    IF ~tm.ok THEN tm
    ELSE IF d = 0 THEN [tm EXCEPT !.ok = (o >= lo /\ o <= hi)]
    ELSE LET t1 == Div(lo - o, d)
             t2 == Div(hi - o, d)
             near == IF t1 > t2 THEN t2 ELSE t1
             far  == IF t1 > t2 THEN t1 ELSE t2
             tmin == IF tm.tmin > near THEN tm.tmin ELSE near
             tmax == IF tm.tmax < far THEN tm.tmax ELSE far
         IN  [tmin |-> tmin, tmax |-> tmax, ok |-> tmin <= tmax]

\* AABB::ray_intersect: whether the ray hits the box, and t_out
ray_intersect(box, origin, dir) ==
    CHOOSE r \in
        { [hit |-> tz.ok /\ (IF tz.tmin >= 0 THEN tz.tmin ELSE tz.tmax) >= 0,
           t |-> IF tz.tmin >= 0 THEN tz.tmin ELSE tz.tmax] :
          tz \in { Slab(origin.z, dir.z, box.min.z, box.max.z, ty) :
              ty \in { Slab(origin.y, dir.y, box.min.y, box.max.y, tx) :
                  tx \in { Slab(origin.x, dir.x, box.min.x, box.max.x,
                                [tmin |-> -Infinity, tmax |-> Infinity,
                                 ok |-> TRUE]) } } } } : TRUE

\* the projectile of shoot() with its radius and its damage
Armed(origin, direction, config, tag) ==
    Spawned(origin, direction, config, tag)
        @@ [radius |-> config.projectile_radius, damage |-> config.projectile_damage]

\* shoot(), the hitscan: ray_intersect on the world bounds of entity i
HitScan(entities, i, origin, direction) ==
    ray_intersect(world_bounds(entities[i]), origin, direction)

\* the alive entities the ray hits at t below the starting closest_t, 999
Struck(entities, origin, direction) ==
    { i \in DOMAIN entities :
        /\ entities[i].alive
        /\ HitScan(entities, i, origin, direction).hit
        /\ HitScan(entities, i, origin, direction).t < 999000 }

\* closest_id: the first entity of the loop with the smallest t
Closest(entities, origin, direction) ==
    CHOOSE i \in Struck(entities, origin, direction) :
        \A j \in Struck(entities, origin, direction) :
            \/ HitScan(entities, i, origin, direction).t
                 < HitScan(entities, j, origin, direction).t
            \/ /\ HitScan(entities, i, origin, direction).t
                    = HitScan(entities, j, origin, direction).t
               /\ i <= j

\* shoot(origin, direction, config, projectiles, entities, stats): the
\* projectile list, the entities and the stats after the call
shoot(origin, direction, config, list, entities, st) ==
    LET fired == Append(list, Armed(origin, direction, config, st.total_shots + 1))
        shot  == [st EXCEPT !.total_shots = st.total_shots + 1]
    IN  IF Struck(entities, origin, direction) = {}
        THEN [projectiles |-> fired, entities |-> entities, stats |-> shot]
        ELSE [projectiles |-> fired,
              entities |->
                  [entities EXCEPT ![Closest(entities, origin, direction)] =
                      Entity_take_damage(@, config.projectile_damage)],
              stats |-> [shot EXCEPT
                  !.total_hits = st.total_hits + 1,
                  !.score =
                      IF Entity_take_damage_returns(
                             entities[Closest(entities, origin, direction)],
                             config.projectile_damage)
                      THEN st.score + config.kill_score ELSE st.score]]

\* check_projectile_collisions from projectile k on: world holds the
\* projectile list, the entities and the stats
RECURSIVE CollideFrom(_, _, _)
CollideFrom(world, k, kill_score) ==
    IF k > Len(world.projectiles) THEN world
    ELSE LET proj == world.projectiles[k]
             met  == { i \in DOMAIN world.entities :
                         /\ world.entities[i].alive
                         /\ intersects(from_center(proj.position, proj.radius),
                                       world_bounds(world.entities[i])) }
             first == CHOOSE i \in met : \A j \in met : i <= j
         IN  IF ~proj.active \/ met = {}
             THEN CollideFrom(world, k + 1, kill_score)
             ELSE CollideFrom(
                    [projectiles |-> [world.projectiles EXCEPT ![k].active = FALSE],
                     entities |-> [world.entities EXCEPT ![first] =
                                     Entity_take_damage(world.entities[first], proj.damage)],
                     stats |-> [world.stats EXCEPT
                         !.total_hits = world.stats.total_hits + 1,
                         !.score = IF Entity_take_damage_returns(world.entities[first],
                                                                 proj.damage)
                                   THEN world.stats.score + kill_score
                                   ELSE world.stats.score]],
                    k + 1, kill_score)

check_projectile_collisions(list, entities, st, kill_score) ==
    CollideFrom([projectiles |-> list, entities |-> entities, stats |-> st],
                1, kill_score)

\* CombatStats::accuracy()
accuracy(st) ==
    IF st.total_shots > 0
    THEN Mul(Div(st.total_hits * Scale, st.total_shots * Scale), 100 * Scale)
    ELSE 0

\* CombatConfig as shipped
DefaultConfig ==
    [projectile_speed |-> 40000, projectile_damage |-> 25000,
     projectile_lifetime |-> 3000, projectile_radius |-> 80, kill_score |-> 100]

\* the entities of a run: a target level with the shooter, without and with
\* a second one below the shooter, and a target that cannot be destroyed
Targets ==
    { << NewEntity(Vec3(2000, 1500, 0), Zero, 3000, TRUE) >>,
      << NewEntity(Vec3(2000, 1500, 0), Zero, 3000, TRUE),
         NewEntity(Zero, Zero, 3000, TRUE) >>,
      << NewEntity(Vec3(2000, 1500, 0), Zero, 3000, FALSE) >> }

ShotCall(op, shots_fired, updates) ==
    [op |-> op, shots |-> shots_fired, updates |-> updates]

\* in this specification entity holds the std::vector<core::Entity>
InitShooting ==
    /\ entity \in Targets
    /\ projectiles = <<>>
    /\ stats = [score |-> 0, total_shots |-> 0, total_hits |-> 0]
    /\ last = ShotCall("new", 0, 0)
    /\ terrain = <<>>
    /\ nav = <<>>
    /\ NoGolf

ShootAt ==
    /\ last.shots < MaxShots
    /\ \E d \in ShotDirections :
      \E after \in {shoot(ShotOrigin, d, DefaultConfig, projectiles, entity, stats)} :
          /\ projectiles' = after.projectiles
          /\ entity' = after.entities
          /\ stats' = after.stats
    /\ last' = ShotCall("shoot", last.shots + 1, last.updates)
    /\ UNCHANGED <<ball, terrain, wind, dt, threw, launches, ticks, idle, nav,
                   stroke_count>>

MoveProjectiles ==
    /\ last.updates < MaxProjectileUpdates
    /\ \E step \in ProjectileSteps :
          projectiles' = update_projectiles(projectiles, step)
    /\ last' = ShotCall("update_projectiles", last.shots, last.updates + 1)
    /\ UNCHANGED <<ball, terrain, wind, dt, threw, launches, ticks, idle, nav,
                   stroke_count, entity, stats>>

CheckCollisions ==
    /\ \E after \in {check_projectile_collisions(projectiles, entity, stats,
                                                 DefaultConfig.kill_score)} :
          /\ projectiles' = after.projectiles
          /\ entity' = after.entities
          /\ stats' = after.stats
    /\ last' = ShotCall("check_projectile_collisions", last.shots, last.updates)
    /\ UNCHANGED <<ball, terrain, wind, dt, threw, launches, ticks, idle, nav,
                   stroke_count>>

NextShooting == ShootAt \/ MoveProjectiles \/ CheckCollisions

SpecShooting == InitShooting /\ [][NextShooting]_vars

\* C30: from zeroed CombatStats, after any sequence of shoot,
\* update_projectiles and check_projectile_collisions calls, total_hits is at
\* most total_shots and accuracy() is at most 100: a shot counts as a hit at
\* most once
C30_HitsAtMostShots ==
    /\ stats.total_hits <= stats.total_shots
    /\ accuracy(stats) <= 100 * Scale

====
